---- MODULE Spec2Model ----
(***************************************************************************)
(* OctoPrint-GuardianEye: the monitoring engine (monitor.py) driven by the *)
(* plugin's control layer (__init__.py), with the verdict parser           *)
(* (vision_providers.py), the history stores (history.py) and the cost     *)
(* tracker (cost_tracker.py).                                              *)
(*                                                                         *)
(* Threads: the host's event thread (on_event, on_print_progress), an API  *)
(* request thread (on_api_command) and the RepeatedTimer threads created   *)
(* by PrintMonitor.start.  A handler is cut into steps at the points where *)
(* another thread can observe or change shared state: the lock             *)
(* acquisition of _run_cycle, the blocking calls of a cycle (snapshot      *)
(* fetch, vision analysis, cancel_print / notifications) and the unlocked  *)
(* read-then-write sequences of start() and of the manual check.           *)
(*                                                                         *)
(* Optional values (Python None) are sequences of length 0 or 1.           *)
(* Text is a sequence of one-character strings.  Costs are in units of     *)
(* 1e-4 dollars, confidences in hundredths.                                *)
(***************************************************************************)
EXTENDS Integers, Sequences, FiniteSets, TLC

\* ---------------------------------------------------------------- bounds

\* RepeatedTimer threads that can exist at once (a stopped timer's thread
\* may still be inside a cycle when the next start() creates a new one).
MaxTimers == 2
\* Largest configurable fail_strikes value explored.
MaxStrikes == 2
\* Calls (events, commands, timer ticks) over the life of the process, with
\* threads running freely against each other.
MaxOps == 3
\* The same when each call runs to completion before the next begins.
MaxSeqOps == 4
\* Calls on a store taken on its own.
MaxStoreOps == 3
\* Calls on the session log taken on its own: a session with four verdicts.
MaxSessionOps == 6

\* ------------------------------------------------------------ data model

None == <<>>
Some(x) == <<x>>

\* The host's event thread (on_event / on_print_progress).
Host == 0
\* An API request thread (on_api_command).
Api == -1
Ctl == {Host, Api}
Timers == 1..MaxTimers
Threads == Ctl \cup Timers

\* ------------------------------------------------------- verdict parsing

WS == {" ", "\n", "\t"}

LowerCase == <<"a", "b", "c", "d", "e", "f", "g", "h", "i", "j", "k", "l", "m",
               "n", "o", "p", "q", "r", "s", "t", "u", "v", "w", "x", "y", "z">>
UpperCase == <<"A", "B", "C", "D", "E", "F", "G", "H", "I", "J", "K", "L", "M",
               "N", "O", "P", "Q", "R", "S", "T", "U", "V", "W", "X", "Y", "Z">>

\* str.upper(), one character.
UpperChar(c) ==
    IF \E i \in 1..Len(LowerCase) : LowerCase[i] = c
    THEN UpperCase[CHOOSE i \in 1..Len(LowerCase) : LowerCase[i] = c]
    ELSE c

Upper(s) == [i \in 1..Len(s) |-> UpperChar(s[i])]

RECURSIVE LStrip(_, _)
LStrip(s, chars) ==
    IF s # <<>> /\ Head(s) \in chars THEN LStrip(Tail(s), chars) ELSE s

RECURSIVE RStrip(_, _)
RStrip(s, chars) ==
    IF s # <<>> /\ s[Len(s)] \in chars
    THEN RStrip(SubSeq(s, 1, Len(s) - 1), chars)
    ELSE s

Strip(s) == RStrip(LStrip(s, WS), WS)

\* s[:n]
Take(s, n) == SubSeq(s, 1, IF Len(s) < n THEN Len(s) ELSE n)

\* s[n:]
Drop(s, n) == SubSeq(s, n + 1, Len(s))

\* `sub in s`
Contains(s, sub) ==
    \E i \in 0..(Len(s) - Len(sub)) : SubSeq(s, i + 1, i + Len(sub)) = sub

\* s.index(sub): the first (0-based) position of sub in s.
IndexOf(s, sub) ==
    CHOOSE i \in 0..(Len(s) - Len(sub)) :
        /\ SubSeq(s, i + 1, i + Len(sub)) = sub
        /\ \A j \in 0..(i - 1) : SubSeq(s, j + 1, j + Len(sub)) # sub

LitFail == <<"V", "E", "R", "D", "I", "C", "T", ":", " ", "F", "A", "I", "L">>
LitOk == <<"V", "E", "R", "D", "I", "C", "T", ":", " ", "O", "K">>
DefaultFailReason == <<"visual failure detected">>
DefaultOkReason == <<"print looks normal">>
ReasonLimit == 200
FailConfidence == 95

\* after.lstrip().lstrip("|").strip()
ReasonAfter(reply, lit) ==
    Strip(LStrip(LStrip(Drop(reply, IndexOf(Upper(reply), lit) + Len(lit)), WS), {"|"}))

\* Variant of ParseVerdict: a reply without a verdict literal counts as a failure.
ParseVerdictFailClosed(raw) ==
    LET reply == Strip(raw)
        upper == Upper(reply)
    IN  IF Contains(upper, LitOk) /\ ~Contains(upper, LitFail)
        THEN LET reason == ReasonAfter(reply, LitOk)
             IN  [failed |-> FALSE,
                  reason |-> IF reason = <<>> THEN DefaultOkReason ELSE reason,
                  confidence |-> 0]
        ELSE [failed |-> TRUE, reason |-> Take(reply, ReasonLimit),
              confidence |-> FailConfidence]

\* Variant of ParseVerdict: VERDICT: OK is looked for first.
ParseVerdictOkFirst(raw) ==
    LET reply == Strip(raw)
        upper == Upper(reply)
    IN  IF Contains(upper, LitOk)
        THEN LET reason == ReasonAfter(reply, LitOk)
             IN  [failed |-> FALSE,
                  reason |-> IF reason = <<>> THEN DefaultOkReason ELSE reason,
                  confidence |-> 0]
        ELSE IF Contains(upper, LitFail)
        THEN LET reason == ReasonAfter(reply, LitFail)
             IN  [failed |-> TRUE,
                  reason |-> IF reason = <<>> THEN DefaultFailReason ELSE reason,
                  confidence |-> FailConfidence]
        ELSE [failed |-> FALSE, reason |-> Take(reply, ReasonLimit), confidence |-> 0]

ParseVerdict(raw) ==
    LET reply == Strip(raw)
        upper == Upper(reply)
    IN  IF Contains(upper, LitFail)
        THEN LET reason == ReasonAfter(reply, LitFail)
             IN  [failed |-> TRUE,
                  reason |-> IF reason = <<>> THEN DefaultFailReason ELSE reason,
                  confidence |-> FailConfidence]
        ELSE IF Contains(upper, LitOk)
        THEN LET reason == ReasonAfter(reply, LitOk)
             IN  [failed |-> FALSE,
                  reason |-> IF reason = <<>> THEN DefaultOkReason ELSE reason,
                  confidence |-> 0]
        ELSE [failed |-> FALSE, reason |-> Take(reply, ReasonLimit), confidence |-> 0]

\* -------------------------------------------------------------- settings

\* settings.get_int(["fail_strikes"]) or 3
StrikesOr(n) == IF n = 0 THEN 3 ELSE n
\* settings.get_int(["min_layer_for_vision"]) or 2
MinLayerOr(n) == IF n = 0 THEN 2 ELSE n

StrikeChoices == 0..MaxStrikes
MinLayerChoices == {0, 1}
\* on_event ZChange: max(1, int(z / layer_height))
LayerChoices == {1}
ProgressChoices == {80}
LatencyChoices == {40}

\* ------------------------------------------------------------ notifications

\* The "notifications" settings as get_settings_defaults leaves them.
NoChannels ==
    [webhook_enabled |-> FALSE, webhook_url |-> "",
     discord_enabled |-> FALSE, discord_webhook_url |-> "",
     telegram_enabled |-> FALSE, telegram_bot_token |-> "",
     telegram_chat_id |-> ""]

\* The channels in the order send_failure_notifications goes through them.
Channels == <<"webhook", "discord", "telegram">>

\* The condition in front of each channel, lines 29, 32 and 35: the flag is
\* set and the address is not empty.
ChannelSelected(notif, ch) ==
    CASE ch = "webhook" -> notif.webhook_enabled /\ notif.webhook_url # ""
      [] ch = "discord" -> notif.discord_enabled /\ notif.discord_webhook_url # ""
      [] ch = "telegram" -> /\ notif.telegram_enabled
                            /\ notif.telegram_bot_token # ""
                            /\ notif.telegram_chat_id # ""

\* What running a piece of code gave: the calls it made and whether it
\* ended by raising.
Done(cs) == [calls |-> cs, raised |-> FALSE]
Raised(cs) == [calls |-> cs, raised |-> TRUE]

\* Two statements in a row: the second runs only if the first did not raise.
Then(a, b) ==
    IF a.raised THEN a ELSE [calls |-> a.calls \o b.calls, raised |-> b.raised]

\* Variant of SendWebhook without its handler: the failure leaves the function.
SendWebhookUnguarded(fails) ==
    IF fails THEN Raised(<<"webhook.post_json">>) ELSE Done(<<"webhook.post_json">>)

\* _send_webhook, lines 39-53: the request, and the warning of the handler
\* when the request fails.
SendWebhook(fails) ==
    Done(<<"webhook.post_json">> \o (IF fails THEN <<"log_warning">> ELSE <<>>))

\* _send_discord, lines 56-78: multipart with the snapshot file, else JSON.
SendDiscord(withFile, fails) ==
    Done(<<IF withFile THEN "discord.post_multipart" ELSE "discord.post_json">>
            \o (IF fails THEN <<"log_warning">> ELSE <<>>))

\* _send_telegram, lines 81-106: sendPhoto with the snapshot file, else
\* sendMessage.
SendTelegram(withFile, fails) ==
    Done(<<IF withFile THEN "telegram.sendPhoto" ELSE "telegram.sendMessage">>
            \o (IF fails THEN <<"log_warning">> ELSE <<>>))

\* send_failure_notifications, lines 18-36.
Dispatch(notif, withFile, failing) ==
    Then(Then(IF ChannelSelected(notif, "webhook")
              THEN SendWebhook("webhook" \in failing)
              ELSE Done(<<>>),
              IF ChannelSelected(notif, "discord")
              THEN SendDiscord(withFile, "discord" \in failing)
              ELSE Done(<<>>)),
         IF ChannelSelected(notif, "telegram")
         THEN SendTelegram(withFile, "telegram" \in failing)
         ELSE Done(<<>>))

\* The notification settings explored: every combination of the three flags
\* with every address present or empty.
NotifChoices ==
    [webhook_enabled : BOOLEAN, webhook_url : {"", "url"},
     discord_enabled : BOOLEAN, discord_webhook_url : {"", "url"},
     telegram_enabled : BOOLEAN, telegram_bot_token : {"", "token"},
     telegram_chat_id : {"", "chat"}]

\* get_settings_defaults, with fail_strikes left open
DefaultSettings(strikes) ==
    [fail_strikes |-> strikes, min_layer_for_vision |-> 2,
     cost_tracking |-> TRUE, provider_known |-> TRUE,
     notifications |-> NoChannels]

\* The configurations explored: every fail_strikes choice with the other
\* settings at their defaults, and each other setting changed on its own.
SettingsChoices ==
    {DefaultSettings(n) : n \in StrikeChoices}
        \cup {[DefaultSettings(1) EXCEPT !.min_layer_for_vision = m] : m \in MinLayerChoices}
        \cup {[DefaultSettings(1) EXCEPT !.provider_known = FALSE]}

\* estimate_cost("openai", "gpt-4o-mini") = 0.0003
CallCost == 3

\* ------------------------------------------------------------ the stores

MAX_VERDICTS == 500
MAX_SESSIONS_SAVED == 100

\* VerdictHistory.add (the timestamp is wall-clock time and is left out).
NewEntry(id, v, snapshot, cycle, layer, progress) ==
    [id |-> id, cycle |-> cycle, layer |-> layer, progress |-> progress,
     failed |-> v.failed, reason |-> v.reason, confidence |-> v.confidence,
     provider |-> v.provider, model |-> v.model, latency_ms |-> v.latency_ms,
     cost |-> v.cost, false_positive |-> FALSE, snapshot |-> snapshot]

\* s[-n:] for n >= 0: the last n elements, and all of s for n = 0 (-0 is 0,
\* so the slice starts at the front)
LastN(s, n) ==
    IF n = 0 THEN s
    ELSE IF Len(s) > n THEN SubSeq(s, Len(s) - n + 1, Len(s)) ELSE s

\* reversed(s)
Reversed(s) == [i \in 1..Len(s) |-> s[Len(s) + 1 - i]]

\* Variant of HistoryAdd: at the cap the first entries are kept.
HistoryAddKeepOldest(es, e) ==
    LET a == Append(es, e)
    IN  IF Len(a) > MAX_VERDICTS THEN SubSeq(a, 1, MAX_VERDICTS) ELSE a

\* VerdictHistory.add, lines 62-64
HistoryAdd(es, e) ==
    LET a == Append(es, e)
    IN  IF Len(a) > MAX_VERDICTS THEN LastN(a, MAX_VERDICTS) ELSE a

\* VerdictHistory.mark_false_positive, lines 68-74: the first entry with the
\* id gets the flag; found tells whether there is one.
HasEntry(es, id) == \E i \in DOMAIN es : es[i].id = id

\* Variant of MarkFalsePositive: every entry from the match on is flagged.
MarkFalsePositiveFromMatch(es, id) ==
    IF ~HasEntry(es, id) THEN es
    ELSE LET first == CHOOSE i \in DOMAIN es :
                          /\ es[i].id = id
                          /\ \A j \in 1..(i - 1) : es[j].id # id
         IN  [i \in DOMAIN es |->
                 IF i >= first THEN [es[i] EXCEPT !.false_positive = TRUE]
                 ELSE es[i]]

MarkFalsePositive(es, id) ==
    IF ~HasEntry(es, id) THEN es
    ELSE LET first == CHOOSE i \in DOMAIN es :
                          /\ es[i].id = id
                          /\ \A j \in 1..(i - 1) : es[j].id # id
         IN  [es EXCEPT ![first].false_positive = TRUE]

\* VerdictHistory.get_entries, lines 76-77
GetEntries(es, limit) == Reversed(LastN(es, limit))

\* SessionHistory.get_sessions, lines 174-175
GetSessions(ss, limit) == Reversed(LastN(ss, limit))

\* CostTracker
FreshCost == [session_cost |-> 0, session_calls |-> 0,
              lifetime_cost |-> 0, lifetime_calls |-> 0]

CostRecord(c, amount) ==
    [session_cost |-> c.session_cost + amount,
     session_calls |-> c.session_calls + 1,
     lifetime_cost |-> c.lifetime_cost + amount,
     lifetime_calls |-> c.lifetime_calls + 1]

\* Variant of CostResetSession: the lifetime counters are cleared as well.
CostResetAll(c) ==
    [session_cost |-> 0, session_calls |-> 0,
     lifetime_cost |-> 0, lifetime_calls |-> 0]

CostResetSession(c) == [c EXCEPT !.session_cost = 0, !.session_calls = 0]

\* SessionHistory.start_session (id and timestamps left out)
NewSession(filename) ==
    [filename |-> filename, cycles |-> 0, ok_count |-> 0, fail_count |-> 0,
     max_consecutive_fails |-> 0, emergency_stop |-> FALSE, total_cost |-> 0,
     print_score |-> None]

\* Variant of SessionRecord: the session counts non-failing verdicts only.
SessionRecordOkOnly(cur, failed, amount) ==
    IF cur = None \/ failed THEN cur
    ELSE Some([cur[1] EXCEPT
                 !.cycles = @ + 1,
                 !.total_cost = @ + amount,
                 !.ok_count = @ + 1])

\* SessionHistory.record_verdict on the open session (an optional value)
SessionRecord(cur, failed, amount) ==
    IF cur = None THEN cur
    ELSE Some([cur[1] EXCEPT
                 !.cycles = @ + 1,
                 !.total_cost = @ + amount,
                 !.fail_count = IF failed THEN @ + 1 ELSE @,
                 !.ok_count = IF failed THEN @ ELSE @ + 1])

\* round(num / den, 0) to the nearest integer, ties to even
RoundHalfEven(num, den) ==
    LET q == num \div den
        r == num % den
    IN  IF 2 * r < den THEN q
        ELSE IF 2 * r > den THEN q + 1
        ELSE IF q % 2 = 0 THEN q ELSE q + 1

\* Variant of PrintScore: the tenths are cut, not rounded.
PrintScoreTruncated(ok, total) == (ok * 1000) \div total

\* round(ok_count / cycles * 100, 1), in tenths of a percent
PrintScore(ok, total) == RoundHalfEven(ok * 1000, total)

\* SessionHistory.end_session: the finalized summary
Finalized(s, emergency) ==
    [s EXCEPT !.emergency_stop = emergency,
              !.print_score = IF s.cycles > 0
                              THEN Some(PrintScore(s.ok_count, s.cycles))
                              ELSE @]

SessionsAfterEnd(ss, cur, emergency) ==
    IF cur = None THEN ss ELSE Append(ss, Finalized(cur[1], emergency))

\* sum(...) over the entries lo..hi, for the two summed fields; the range
\* is halved so that a full store is summed in a shallow recursion.
RECURSIVE SumLatencyOf(_, _, _)
SumLatencyOf(es, lo, hi) ==
    IF lo > hi THEN 0
    ELSE IF lo = hi THEN es[lo].latency_ms
    ELSE LET mid == (lo + hi) \div 2
         IN  SumLatencyOf(es, lo, mid) + SumLatencyOf(es, mid + 1, hi)

SumLatency(es) == SumLatencyOf(es, 1, Len(es))

RECURSIVE SumCostOf(_, _, _)
SumCostOf(es, lo, hi) ==
    IF lo > hi THEN 0
    ELSE IF lo = hi THEN es[lo].cost
    ELSE LET mid == (lo + hi) \div 2
         IN  SumCostOf(es, lo, mid) + SumCostOf(es, mid + 1, hi)

SumCost(es) == SumCostOf(es, 1, Len(es))

\* Variant of GetStatistics: the rate is taken over all entries.
GetStatisticsRateOfTotal(es) ==
    LET total == Len(es)
        fp == Cardinality({i \in DOMAIN es : es[i].false_positive})
    IN  IF total = 0
        THEN [total |-> 0, ok |-> 0, fail |-> 0, false_positives |-> 0,
              fp_rate |-> 0, avg_latency |-> 0, total_cost |-> 0]
        ELSE [total |-> total,
              ok |-> Cardinality({i \in DOMAIN es : ~es[i].failed}),
              fail |-> Cardinality({i \in DOMAIN es : es[i].failed}),
              false_positives |-> fp,
              fp_rate |-> RoundHalfEven(fp * 1000, total),
              avg_latency |-> SumLatency(es) \div total,
              total_cost |-> SumCost(es)]

\* VerdictHistory.get_statistics, lines 83-103; fp_rate in tenths of a
\* percent (round(..., 1)), total_cost in 1e-4 (round(..., 4)).
GetStatistics(es) ==
    LET total == Len(es)
        fail == Cardinality({i \in DOMAIN es : es[i].failed})
        fp == Cardinality({i \in DOMAIN es : es[i].false_positive})
    IN  IF total = 0
        THEN [total |-> 0, ok |-> 0, fail |-> 0, false_positives |-> 0,
              fp_rate |-> 0, avg_latency |-> 0, total_cost |-> 0]
        ELSE [total |-> total,
              ok |-> Cardinality({i \in DOMAIN es : ~es[i].failed}),
              fail |-> fail,
              false_positives |-> fp,
              fp_rate |-> RoundHalfEven(fp * 1000, IF fail > 1 THEN fail ELSE 1),
              avg_latency |-> SumLatency(es) \div total,
              total_cost |-> SumCost(es)]

\* ---------------------------------------------------------- MonitorState

FreshState ==
    [active |-> FALSE, cycle_count |-> 0, last_verdict |-> None,
     last_snapshot_path |-> None, consecutive_failures |-> 0,
     failure_detected |-> FALSE, failure_reason |-> None,
     emergency_stop_sent |-> FALSE, layer |-> None, total_layers |-> None,
     progress |-> 0, errors |-> <<>>]

\* MonitorState.to_dict
ToDict(st) == [st EXCEPT !.errors = LastN(@, 10)]

\* ------------------------------------------------------------- variables

VARIABLES
    state,          \* PrintMonitor.state (one MonitorState object, reset in place)
    timer,          \* PrintMonitor._timer: None or Some(timer thread)
    snapshot_count, \* PrintMonitor._snapshot_count
    lock,           \* PrintMonitor._lock: None or Some(holder)
    settings,       \* the plugin's settings
    entries,        \* VerdictHistory._entries
    next_id,        \* the entry ids handed out so far
    sessions,       \* SessionHistory._sessions
    current,        \* SessionHistory._current
    cost,           \* CostTracker
    pc,             \* each thread's position
    loc,            \* each thread's locals
    cancelled,      \* RepeatedTimer: cancel() was called while the thread was in its function
    calls,          \* calls to collaborators made by the last step, in order
    result,         \* None or Some(value returned by the method the last step ran)
    slots,          \* calls the host process lets run at the same time
    budget          \* calls the process will still receive

vars == <<state, timer, snapshot_count, lock, settings, entries,
          next_id, sessions, current, cost, pc, loc, cancelled, calls,
          result, slots, budget>>

monitorVars == <<state, timer, snapshot_count, lock>>
storeVars == <<entries, next_id, sessions, current, cost>>

NoLocals == [ret |-> "idle", cycle_num |-> 0, layer |-> None, progress |-> 0]

InitWith(k, n) ==
    /\ slots = k
    /\ budget = n
    /\ state = FreshState
    /\ timer = None
    /\ snapshot_count = 0
    /\ lock = None
    /\ settings \in SettingsChoices
    /\ entries = <<>>
    /\ next_id = 0
    /\ sessions = <<>>
    /\ current = None
    /\ cost = FreshCost
    /\ pc = [t \in Threads |-> IF t \in Ctl THEN "idle" ELSE "dead"]
    /\ loc = [t \in Threads |-> NoLocals]
    /\ cancelled = [t \in Timers |-> FALSE]
    /\ calls = <<>>
    /\ result = None

Init == InitWith(Cardinality(Threads), MaxOps)

\* ------------------------------------------------------- shared helpers

Quiet(t) == pc[t] \in {"idle", "wait", "dead"}

\* Bound: thread t begins a call only while a slot is free and calls are left.
Enter(t) ==
    /\ Cardinality({u \in Threads \ {t} : ~Quiet(u)}) < slots
    /\ budget > 0
    /\ budget' = budget - 1
    /\ UNCHANGED slots

\* Threads inside start(): between its active check and its timer creation.
Starting == {c \in Ctl : pc[c] \in {"start_reset", "start_timer"}
                          \/ (~Quiet(c) /\ loc[c].ret = "start_timer")}

\* Bound: a start() may begin only while a timer thread is left for it.
StartAllowed ==
    Cardinality({t \in Timers : pc[t] = "dead"}) > Cardinality(Starting)

\* RepeatedTimer.cancel() on the timer held in _timer: a sleeping thread
\* ends at once, a thread inside its function ends when the function returns.
CancelPc(p, tm) ==
    IF tm # None /\ p[tm[1]] = "wait" THEN [p EXCEPT ![tm[1]] = "dead"] ELSE p

CancelFlag(c, p, tm) ==
    IF tm # None /\ p[tm[1]] \notin {"wait", "dead"}
    THEN [c EXCEPT ![tm[1]] = TRUE]
    ELSE c

\* _run_cycle returns to its caller: start(), the manual check, or the
\* timer thread's loop (which ends if the timer was cancelled meanwhile).
ReturnPc(p, c, t) ==
    [p EXCEPT ![t] = IF t \in Timers
                     THEN (IF c[t] THEN "dead" ELSE "wait")
                     ELSE loc[t].ret]

ReturnFlag(c, t) == IF t \in Timers THEN [c EXCEPT ![t] = FALSE] ELSE c

\* Variant of EndCycle: the call returns and the lock stays taken.
EndCycleKeepLock(t) ==
    /\ lock' = lock
    /\ pc' = ReturnPc(pc, cancelled, t)
    /\ cancelled' = ReturnFlag(cancelled, t)
    /\ loc' = [loc EXCEPT ![t] = NoLocals]

\* The cycle of thread t ends here: the lock is released and the call returns.
EndCycle(t) ==
    /\ lock' = None
    /\ pc' = ReturnPc(pc, cancelled, t)
    /\ cancelled' = ReturnFlag(cancelled, t)
    /\ loc' = [loc EXCEPT ![t] = NoLocals]

AppendError(st, cycle_num, kind) ==
    [st EXCEPT !.errors = Append(@, <<cycle_num, kind>>)]

\* --------------------------------------------- PrintMonitor._monitor_cycle

\* _run_cycle without the lock: the cycle begins although another holds it.
CycleBeginNoLock(t) ==
    /\ pc[t] = "lock"
    /\ IF ~state.active
       THEN /\ pc' = ReturnPc(pc, cancelled, t)
            /\ cancelled' = ReturnFlag(cancelled, t)
            /\ loc' = [loc EXCEPT ![t] = NoLocals]
            /\ UNCHANGED <<state, lock>>
       ELSE /\ state' = [state EXCEPT !.cycle_count = @ + 1]
            /\ lock' = Some(t)
            /\ pc' = [pc EXCEPT ![t] = "snap"]
            /\ loc' = [loc EXCEPT ![t].cycle_num = state.cycle_count + 1,
                                  ![t].layer = state.layer,
                                  ![t].progress = state.progress]
            /\ UNCHANGED cancelled
    /\ result' = None
    /\ calls' = <<>>
    /\ UNCHANGED <<timer, snapshot_count, settings, slots, budget>>
    /\ UNCHANGED storeVars

\* _run_cycle: take the lock; _monitor_cycle lines 136-152.
CycleBegin(t) ==
    /\ pc[t] = "lock"
    /\ lock = None
    /\ IF ~state.active
       THEN /\ pc' = ReturnPc(pc, cancelled, t)
            /\ cancelled' = ReturnFlag(cancelled, t)
            /\ loc' = [loc EXCEPT ![t] = NoLocals]
            /\ UNCHANGED <<state, lock>>
       ELSE /\ state' = [state EXCEPT !.cycle_count = @ + 1]
            /\ lock' = Some(t)
            /\ pc' = [pc EXCEPT ![t] = "snap"]
            /\ loc' = [loc EXCEPT ![t].cycle_num = state.cycle_count + 1,
                                  ![t].layer = state.layer,
                                  ![t].progress = state.progress]
            /\ UNCHANGED cancelled
    /\ result' = None
    /\ calls' = <<>>
    /\ UNCHANGED <<timer, snapshot_count, settings, slots, budget>>
    /\ UNCHANGED storeVars

\* Variant of CycleUnexpectedError: the outer handler returns at once.
CycleUnexpectedErrorSilent(t) ==
    /\ pc[t] = "snap"
    /\ state' = AppendError(state, loc[t].cycle_num, "unexpected error")
    /\ result' = None
    /\ calls' = <<>>
    /\ EndCycle(t)
    /\ UNCHANGED <<timer, snapshot_count, settings, slots, budget>>
    /\ UNCHANGED storeVars

\* An exception outside the two inner handlers (get_snapshot_url, the data
\* folder, ...), here before the snapshot: the outer handler, lines 245-250.
CycleUnexpectedError(t) ==
    /\ pc[t] = "snap"
    /\ state' = AppendError(state, loc[t].cycle_num, "unexpected error")
    /\ result' = None
    /\ calls' = <<"send_state_update">>
    /\ EndCycle(t)
    /\ UNCHANGED <<timer, snapshot_count, settings, slots, budget>>
    /\ UNCHANGED storeVars

\* Variant of CycleSnapshotFail: the failed snapshot also clears the strikes.
CycleSnapshotFailReset(t) ==
    /\ pc[t] = "snap"
    /\ snapshot_count' = snapshot_count + 1
    /\ state' = [AppendError(state, loc[t].cycle_num, "snapshot failed")
                    EXCEPT !.consecutive_failures = 0]
    /\ result' = None
    /\ calls' = <<"capture_snapshot", "send_state_update">>
    /\ EndCycle(t)
    /\ UNCHANGED <<timer, settings, slots, budget>>
    /\ UNCHANGED storeVars

\* capture_snapshot raises: lines 166-174.
CycleSnapshotFail(t) ==
    /\ pc[t] = "snap"
    /\ snapshot_count' = snapshot_count + 1
    /\ state' = AppendError(state, loc[t].cycle_num, "snapshot failed")
    /\ result' = None
    /\ calls' = <<"capture_snapshot", "send_state_update">>
    /\ EndCycle(t)
    /\ UNCHANGED <<timer, settings, slots, budget>>
    /\ UNCHANGED storeVars

\* The stage gate, lines 186-187.
Gated(layer) ==
    layer # None /\ layer[1] < MinLayerOr(settings.min_layer_for_vision)

\* Variant of CycleSnapshotOk: a cycle skipped by the stage gate clears the
\* strikes.
CycleSnapshotOkGateReset(t) ==
    /\ pc[t] = "snap"
    /\ snapshot_count' = snapshot_count + 1
    /\ IF Gated(loc[t].layer)
       THEN /\ state' = [state EXCEPT
                            !.last_snapshot_path = Some(snapshot_count + 1),
                            !.consecutive_failures = 0]
            /\ calls' = <<"capture_snapshot", "send_state_update">>
            /\ result' = None
            /\ EndCycle(t)
       ELSE /\ state' = [state EXCEPT !.last_snapshot_path = Some(snapshot_count + 1)]
            /\ calls' = <<"capture_snapshot">>
            /\ result' = None
            /\ pc' = [pc EXCEPT ![t] = "analyze"]
            /\ UNCHANGED <<lock, cancelled, loc>>
    /\ UNCHANGED <<timer, settings, slots, budget>>
    /\ UNCHANGED storeVars

\* capture_snapshot succeeds; the stage gate, lines 166-190.
CycleSnapshotOk(t) ==
    /\ pc[t] = "snap"
    /\ snapshot_count' = snapshot_count + 1
    /\ state' = [state EXCEPT !.last_snapshot_path = Some(snapshot_count + 1)]
    /\ IF Gated(loc[t].layer)
       THEN /\ calls' = <<"capture_snapshot", "send_state_update">>
            /\ result' = None
            /\ EndCycle(t)
       ELSE /\ calls' = <<"capture_snapshot">>
            /\ result' = None
            /\ pc' = [pc EXCEPT ![t] = "analyze"]
            /\ UNCHANGED <<lock, cancelled, loc>>
    /\ UNCHANGED <<timer, settings, slots, budget>>
    /\ UNCHANGED storeVars

\* get_vision_provider: create_vision_provider raises for an unknown provider
\* name.  The cached instance is dropped by every settings save, so a cached
\* provider exists only while the configured name is known: the call
\* succeeds exactly when it is.
ProviderAvailable == settings.provider_known

\* Variant of CycleAnalyzeError: the failed analysis counts as a strike.
CycleAnalyzeErrorStrike(t) ==
    /\ pc[t] = "analyze"
    /\ state' = [AppendError(state, loc[t].cycle_num, "vision error")
                    EXCEPT !.consecutive_failures = @ + 1]
    /\ result' = None
    /\ calls' = <<"analyze", "send_state_update">>
    /\ EndCycle(t)
    /\ UNCHANGED <<timer, snapshot_count, settings, slots, budget>>
    /\ UNCHANGED storeVars

\* The analysis raises (reading the snapshot file, creating the provider,
\* the HTTP call, the response shape): lines 239-243.
CycleAnalyzeError(t) ==
    /\ pc[t] = "analyze"
    /\ state' = AppendError(state, loc[t].cycle_num, "vision error")
    /\ result' = None
    /\ calls' = IF ProviderAvailable
                THEN <<"analyze", "send_state_update">>
                ELSE <<"send_state_update">>
    /\ EndCycle(t)
    /\ UNCHANGED <<timer, snapshot_count, settings, slots, budget>>
    /\ UNCHANGED storeVars

\* Replies of the vision service seen by the monitor.
ReplyFail == <<"V", "e", "r", "d", "i", "c", "t", ":", " ", "F", "a", "i", "l",
               " ", "|", " ", "b", "l", "o", "b">>
ReplyOk == <<"V", "E", "R", "D", "I", "C", "T", ":", " ", "O", "K", "\n">>
\* No literal: VERDICT:FAIL without the space, padded past the reason limit.
ReplyOther == <<" ", "V", "E", "R", "D", "I", "C", "T", ":", "F", "A", "I", "L", " ">>
                  \o [i \in 1..ReasonLimit |-> "x"]
Replies == {ReplyFail, ReplyOk, ReplyOther}

\* _parse_verdict over the replies, computed once.
ParsedReply == [r \in Replies |-> ParseVerdict(r)]

\* The verdict of one analysis: the parsed reply, annotated (lines 201-205).
Verdict(reply, latency) ==
    LET p == ParsedReply[reply]
    IN  [failed |-> p.failed, reason |-> p.reason, confidence |-> p.confidence,
         provider |-> "openai", model |-> "gpt-4o-mini", latency_ms |-> latency,
         cost |-> IF settings.cost_tracking THEN CallCost ELSE 0]

FailureReason(v, strikes, needed) ==
    [reason |-> v.reason, strikes |-> strikes, needed |-> needed]

\* Variant of Confirmed: every failing verdict is taken as confirmed.
ConfirmedAtOnce(st, v) == v.failed

\* Variant of Confirmed: the threshold has to be exceeded, not reached.
ConfirmedLate(st, v) ==
    v.failed /\ st.consecutive_failures + 1 > StrikesOr(settings.fail_strikes)

\* Lines 212-217: the verdict is the strike that reaches the threshold.
Confirmed(st, v) ==
    v.failed /\ st.consecutive_failures + 1 >= StrikesOr(settings.fail_strikes)

\* Variant of StateAfterVerdict: a non-failing verdict takes one strike off.
StateAfterVerdictDecay(st, v, cancelOk) ==
    LET strikes == st.consecutive_failures + 1
        needed == StrikesOr(settings.fail_strikes)
    IN  IF ~v.failed
        THEN [st EXCEPT !.last_verdict = Some(v),
                        !.consecutive_failures = IF @ > 0 THEN @ - 1 ELSE 0]
        ELSE IF Confirmed(st, v)
        THEN [st EXCEPT !.last_verdict = Some(v),
                        !.consecutive_failures = strikes,
                        !.failure_detected = TRUE,
                        !.failure_reason = Some(FailureReason(v, strikes, needed)),
                        !.emergency_stop_sent = IF cancelOk THEN TRUE ELSE @]
        ELSE [st EXCEPT !.last_verdict = Some(v), !.consecutive_failures = strikes]

\* The strike policy and _handle_failure up to cancel_print, lines 207-264.
StateAfterVerdict(st, v, cancelOk) ==
    LET strikes == st.consecutive_failures + 1
        needed == StrikesOr(settings.fail_strikes)
    IN  IF ~v.failed
        THEN [st EXCEPT !.last_verdict = Some(v), !.consecutive_failures = 0]
        ELSE IF Confirmed(st, v)
        THEN [st EXCEPT !.last_verdict = Some(v),
                        !.consecutive_failures = strikes,
                        !.failure_detected = TRUE,
                        !.failure_reason = Some(FailureReason(v, strikes, needed)),
                        !.emergency_stop_sent = IF cancelOk THEN TRUE ELSE @]
        ELSE [st EXCEPT !.last_verdict = Some(v), !.consecutive_failures = strikes]

\* analyze returns a reply: lines 201-237 and _handle_failure to line 264.
CycleAnalyzeOk(t, reply, latency, cancelOk) ==
    LET v == Verdict(reply, latency)
        snap == state.last_snapshot_path
    IN  /\ pc[t] = "analyze"
        /\ ProviderAvailable
        /\ entries' = HistoryAdd(entries,
                         NewEntry(next_id + 1, v, snap, loc[t].cycle_num,
                                  loc[t].layer, loc[t].progress))
        /\ next_id' = next_id + 1
        /\ cost' = CostRecord(cost, v.cost)
        /\ current' = SessionRecord(current, v.failed, v.cost)
        /\ state' = StateAfterVerdict(state, v, cancelOk)
        /\ IF Confirmed(state, v)
           THEN /\ calls' = <<"analyze", "record_verdict", "cancel_print">>
                /\ result' = None
                /\ pc' = [pc EXCEPT ![t] = "notify"]
                /\ UNCHANGED <<lock, cancelled, loc>>
           ELSE /\ calls' = <<"analyze", "record_verdict", "send_state_update">>
                /\ result' = None
                /\ EndCycle(t)
        /\ UNCHANGED <<timer, snapshot_count, settings, slots, budget, sessions>>

\* PrintMonitor.stop, lines 109-113, on the monitor's fields.
StoppedState(st) == [st EXCEPT !.active = FALSE]

StopCalls ==
    <<"stop">> \o (IF timer # None THEN <<"timer.cancel">> ELSE <<>>)
        \o <<"send_state_update">>

\* The calls of _handle_failure from the notifications on, lines 266-272:
\* a dispatch that raises is logged.
NotifyCalls(notifyOk) ==
    <<"send_failure_notifications">>
        \o (IF notifyOk THEN <<>> ELSE <<"log_notify_error">>)

\* Variant of CycleNotifyAndStop without the handler around the dispatch:
\* its exception reaches the handler of the analysis block, stop() is skipped.
CycleNotifyUnguarded(t, notifyOk) ==
    /\ pc[t] = "notify"
    /\ state' = IF notifyOk THEN StoppedState(state)
                ELSE AppendError(state, loc[t].cycle_num, "vision error")
    /\ timer' = IF notifyOk THEN None ELSE timer
    /\ lock' = None
    /\ pc' = IF notifyOk
             THEN ReturnPc(CancelPc(pc, timer), CancelFlag(cancelled, pc, timer), t)
             ELSE ReturnPc(pc, cancelled, t)
    /\ cancelled' = IF notifyOk
                    THEN ReturnFlag(CancelFlag(cancelled, pc, timer), t)
                    ELSE ReturnFlag(cancelled, t)
    /\ loc' = [loc EXCEPT ![t] = NoLocals]
    /\ result' = IF notifyOk THEN Some(ToDict(StoppedState(state))) ELSE None
    /\ calls' = IF notifyOk
                THEN NotifyCalls(notifyOk) \o StopCalls
                ELSE <<"send_failure_notifications", "send_state_update">>
    /\ UNCHANGED <<snapshot_count, settings, slots, budget>>
    /\ UNCHANGED storeVars

\* _handle_failure from the notifications on, lines 266-272: the dispatch
\* returns or raises (notifyOk), and stop() runs inside the cycle, on the
\* cycle's thread.
CycleNotifyAndStop(t, notifyOk) ==
    /\ pc[t] = "notify"
    /\ state' = StoppedState(state)
    /\ timer' = None
    /\ lock' = None
    /\ pc' = ReturnPc(CancelPc(pc, timer), CancelFlag(cancelled, pc, timer), t)
    /\ cancelled' = ReturnFlag(CancelFlag(cancelled, pc, timer), t)
    /\ loc' = [loc EXCEPT ![t] = NoLocals]
    /\ result' = Some(ToDict(StoppedState(state)))
    /\ calls' = NotifyCalls(notifyOk) \o StopCalls
    /\ UNCHANGED <<snapshot_count, settings, slots, budget>>
    /\ UNCHANGED storeVars

\* ------------------------------------------------------ PrintMonitor.start

\* Variant of PrintStarted: start() without its active check.
PrintStartedUnchecked ==
    /\ pc[Host] = "idle"
    /\ Enter(Host)
    /\ StartAllowed
    /\ current' = Some(NewSession(Some("print.gcode")))
    /\ cost' = CostResetSession(cost)
    /\ pc' = [pc EXCEPT ![Host] = "start_reset"]
    /\ result' = None
    /\ calls' = <<>>
    /\ UNCHANGED <<settings, entries, next_id, sessions, loc, cancelled>>
    /\ UNCHANGED monitorVars

\* GuardianEyePlugin.on_event("PrintStarted") with auto_start, up to the
\* active check of PrintMonitor.start (lines 81-82).
PrintStarted ==
    /\ pc[Host] = "idle"
    /\ Enter(Host)
    /\ StartAllowed
    /\ current' = Some(NewSession(Some("print.gcode")))
    /\ cost' = CostResetSession(cost)
    /\ pc' = IF state.active THEN pc ELSE [pc EXCEPT ![Host] = "start_reset"]
    /\ result' = None
    /\ calls' = <<>>
    /\ UNCHANGED <<settings, entries, next_id, sessions, loc, cancelled>>
    /\ UNCHANGED monitorVars

\* GuardianEyePlugin._api_start_monitoring, up to the active check of start.
ApiStartMonitoring ==
    /\ pc[Api] = "idle"
    /\ Enter(Api)
    /\ StartAllowed
    /\ current' = Some(NewSession(None))
    /\ cost' = CostResetSession(cost)
    /\ pc' = IF state.active THEN pc ELSE [pc EXCEPT ![Api] = "start_reset"]
    /\ result' = None
    /\ calls' = <<>>
    /\ UNCHANGED <<settings, entries, next_id, sessions, loc,
                   cancelled>>
    /\ UNCHANGED monitorVars

\* Variant of StartReset: start() without the reset.
StartNoReset(c) ==
    /\ pc[c] = "start_reset"
    /\ state' = [state EXCEPT !.active = TRUE]
    /\ snapshot_count' = 0
    /\ IF ProviderAvailable
       THEN /\ pc' = [pc EXCEPT ![c] = "lock"]
            /\ loc' = [loc EXCEPT ![c].ret = "start_timer"]
       ELSE /\ pc' = [pc EXCEPT ![c] = "idle"]
            /\ UNCHANGED loc
    /\ result' = None
    /\ calls' = <<>>
    /\ UNCHANGED <<timer, lock, settings, slots, budget, cancelled>>
    /\ UNCHANGED storeVars

\* start(), lines 86-99: reset, active, and the provider for the log line.
\* create_vision_provider raising leaves start() by the exception.
StartReset(c) ==
    /\ pc[c] = "start_reset"
    /\ state' = [FreshState EXCEPT !.active = TRUE]
    /\ snapshot_count' = 0
    /\ IF ProviderAvailable
       THEN /\ pc' = [pc EXCEPT ![c] = "lock"]
            /\ loc' = [loc EXCEPT ![c].ret = "start_timer"]
       ELSE /\ pc' = [pc EXCEPT ![c] = "idle"]
            /\ UNCHANGED loc
    /\ result' = None
    /\ calls' = <<>>
    /\ UNCHANGED <<timer, lock, settings, slots, budget, cancelled>>
    /\ UNCHANGED storeVars

FreeTimer ==
    CHOOSE t \in Timers :
        pc[t] = "dead" /\ \A u \in Timers : u < t => pc[u] # "dead"

\* Variant of NewTimerPc: run_first=True, the new thread calls at once.
RunFirstPc == "lock"

\* start(), lines 103-105: RepeatedTimer(interval, _run_cycle, run_first=False).
\* The new thread sleeps one interval before its first call.
NewTimerPc == "wait"

StartTimer(c) ==
    /\ pc[c] = "start_timer"
    /\ \E t \in Timers : pc[t] = "dead"
    /\ timer' = Some(FreeTimer)
    /\ pc' = [pc EXCEPT ![c] = "idle", ![FreeTimer] = NewTimerPc]
    /\ loc' = [loc EXCEPT ![c] = NoLocals]
    /\ result' = None
    /\ calls' = <<"timer.start", "send_state_update">>
    /\ UNCHANGED <<state, snapshot_count, lock, settings, slots, budget, cancelled>>
    /\ UNCHANGED storeVars

\* The RepeatedTimer thread wakes after an interval and calls _run_cycle.
Tick(t) ==
    /\ pc[t] = "wait"
    /\ Enter(t)
    /\ pc' = [pc EXCEPT ![t] = "lock"]
    /\ result' = None
    /\ calls' = <<>>
    /\ UNCHANGED <<settings, loc, cancelled>>
    /\ UNCHANGED monitorVars
    /\ UNCHANGED storeVars

\* ------------------------------------------------------- PrintMonitor.stop

\* stop() that forgets the timer handle.
MonitorStopKeepTimer ==
    /\ state' = StoppedState(state)
    /\ timer' = timer
    /\ pc' = CancelPc(pc, timer)
    /\ cancelled' = CancelFlag(cancelled, pc, timer)
    /\ result' = Some(ToDict(StoppedState(state)))
    /\ calls' = StopCalls

\* stop() called by a control thread, lines 107-116.
MonitorStop ==
    /\ state' = StoppedState(state)
    /\ timer' = None
    /\ pc' = CancelPc(pc, timer)
    /\ cancelled' = CancelFlag(cancelled, pc, timer)
    /\ result' = Some(ToDict(StoppedState(state)))
    /\ calls' = StopCalls

\* on_event PrintDone / PrintCancelled / PrintFailed, lines 240-249.
PrintEnd(event) ==
    /\ pc[Host] = "idle"
    /\ Enter(Host)
    /\ IF state.active
       THEN /\ MonitorStop
            /\ sessions' = SessionsAfterEnd(sessions, current,
                               event = "PrintFailed" \/ state.emergency_stop_sent)
            /\ current' = None
       ELSE /\ calls' = <<>>
            /\ result' = None
            /\ UNCHANGED <<state, timer, pc, cancelled, sessions, current>>
    /\ UNCHANGED <<snapshot_count, lock, settings, entries, next_id,
                   cost, loc>>

\* _api_stop_monitoring, lines 192-197.
ApiStopMonitoring ==
    /\ pc[Api] = "idle"
    /\ Enter(Api)
    /\ MonitorStop
    /\ sessions' = SessionsAfterEnd(sessions, current, FALSE)
    /\ current' = None
    /\ UNCHANGED <<snapshot_count, lock, settings, entries, next_id,
                   cost, loc>>

\* ----------------------------------------------------- other control calls

\* on_event ZChange, lines 251-256.
ZChange(layer) ==
    /\ pc[Host] = "idle"
    /\ Enter(Host)
    /\ state.active
    /\ state' = [state EXCEPT !.layer = Some(layer)]
    /\ result' = None
    /\ calls' = <<>>
    /\ UNCHANGED <<timer, snapshot_count, lock, settings, pc, loc, cancelled>>
    /\ UNCHANGED storeVars

\* on_print_progress, lines 260-262.
PrintProgress(progress) ==
    /\ pc[Host] = "idle"
    /\ Enter(Host)
    /\ state.active
    /\ state' = [state EXCEPT !.progress = progress]
    /\ result' = None
    /\ calls' = <<>>
    /\ UNCHANGED <<timer, snapshot_count, lock, settings, pc, loc, cancelled>>
    /\ UNCHANGED storeVars

\* _api_manual_check, lines 176-182: the active check.
ApiManualCheck ==
    /\ pc[Api] = "idle"
    /\ Enter(Api)
    /\ IF state.active
       THEN /\ pc' = [pc EXCEPT ![Api] = "lock"]
            /\ loc' = [loc EXCEPT ![Api].ret = "idle"]
       ELSE /\ pc' = [pc EXCEPT ![Api] = "manual_set"]
            /\ UNCHANGED loc
    /\ result' = None
    /\ calls' = <<>>
    /\ UNCHANGED <<settings, cancelled>>
    /\ UNCHANGED monitorVars
    /\ UNCHANGED storeVars

\* _api_manual_check, line 178: active = True, then _run_cycle.
ManualSet ==
    /\ pc[Api] = "manual_set"
    /\ state' = [state EXCEPT !.active = TRUE]
    /\ pc' = [pc EXCEPT ![Api] = "lock"]
    /\ loc' = [loc EXCEPT ![Api].ret = "manual_unset"]
    /\ result' = None
    /\ calls' = <<>>
    /\ UNCHANGED <<timer, snapshot_count, lock, settings, slots, budget, cancelled>>
    /\ UNCHANGED storeVars

\* _api_manual_check, line 180: active = False after the cycle.
ManualUnset ==
    /\ pc[Api] = "manual_unset"
    /\ state' = [state EXCEPT !.active = FALSE]
    /\ pc' = [pc EXCEPT ![Api] = "idle"]
    /\ result' = None
    /\ calls' = <<>>
    /\ UNCHANGED <<timer, snapshot_count, lock, settings, slots, budget, loc, cancelled>>
    /\ UNCHANGED storeVars

\* on_settings_save, lines 100-103: new values, the cached provider dropped.
SettingsSave(new) ==
    /\ pc[Api] = "idle"
    /\ Enter(Api)
    /\ new # settings
    /\ settings' = new
    /\ result' = None
    /\ calls' = <<>>
    /\ UNCHANGED <<pc, loc, cancelled>>
    /\ UNCHANGED monitorVars
    /\ UNCHANGED storeVars

\* ------------------------------------------------------- the specification

Cycle(t) ==
    \/ CycleBegin(t)
    \/ CycleUnexpectedError(t)
    \/ CycleSnapshotFail(t)
    \/ CycleSnapshotOk(t)
    \/ CycleAnalyzeError(t)
    \/ \E reply \in Replies, latency \in LatencyChoices, cancelOk \in BOOLEAN :
           CycleAnalyzeOk(t, reply, latency, cancelOk)
    \/ \E notifyOk \in BOOLEAN : CycleNotifyAndStop(t, notifyOk)

HostStep ==
    \/ PrintStarted
    \/ \E event \in {"PrintDone", "PrintCancelled", "PrintFailed"} : PrintEnd(event)
    \/ \E layer \in LayerChoices : ZChange(layer)
    \/ \E progress \in ProgressChoices : PrintProgress(progress)
    \/ StartReset(Host)
    \/ StartTimer(Host)
    \/ Cycle(Host)

ApiStep ==
    \/ ApiStartMonitoring
    \/ ApiStopMonitoring
    \/ ApiManualCheck
    \/ ManualSet
    \/ ManualUnset
    \/ \E new \in SettingsChoices : SettingsSave(new)
    \/ StartReset(Api)
    \/ StartTimer(Api)
    \/ Cycle(Api)

TimerStep(t) == Tick(t) \/ Cycle(t)

Next == HostStep \/ ApiStep \/ \E t \in Timers : TimerStep(t)

Spec == Init /\ [][Next]_vars

\* Handlers run to completion: a call begins only while every other thread
\* is between calls (the contract of one call taken on its own).
SeqInit == InitWith(1, MaxSeqOps)

SeqSpec == SeqInit /\ [][Next]_vars

\* ------------------------------------------- the monitor deep into a print

MaxErrOps == 3

\* The numbers of cycles run so far, every one of them without a snapshot.
ErrorSizes == {1, 2, 9, 10}

\* The message _monitor_cycle appended in cycle i (line 171).
SnapshotError(i) == <<i, "snapshot failed">>

\* The plugin some cycles after PrintStarted: start() has run its first cycle
\* and created its timer, the timer thread has run the others, and the
\* camera answered none of them.
ErrorsInit ==
    /\ slots = 1
    /\ budget = MaxErrOps
    /\ \E n \in ErrorSizes :
          /\ state = [FreshState EXCEPT
                         !.active = TRUE,
                         !.cycle_count = n,
                         !.errors = [i \in 1..n |-> SnapshotError(i)]]
          /\ snapshot_count = n
    /\ timer = Some(1)
    /\ lock = None
    /\ settings \in {s \in SettingsChoices : s.provider_known}
    /\ entries = <<>>
    /\ next_id = 0
    /\ sessions = <<>>
    /\ current = Some(NewSession(Some("print.gcode")))
    /\ cost = FreshCost
    /\ pc = [t \in Threads |-> IF t \in Ctl THEN "idle"
                               ELSE IF t = 1 THEN "wait" ELSE "dead"]
    /\ loc = [t \in Threads |-> NoLocals]
    /\ cancelled = [t \in Timers |-> FALSE]
    /\ calls \in {<<"timer.start", "send_state_update">>,
                  <<"capture_snapshot", "send_state_update">>}
    /\ calls = <<"timer.start", "send_state_update">> <=> state.cycle_count = 1
    /\ result = None

\* The timer thread's calls, one after the other.
ErrorsNext == \E t \in Timers : TimerStep(t)

ErrorsSpec == ErrorsInit /\ [][ErrorsNext]_vars

\* ------------------------------------------------- the plugin, with progress

MaxLiveOps == 2

LiveInit == InitWith(Cardinality(Threads), MaxLiveOps)

\* A thread inside _run_cycle goes on: the lock is granted when it is free,
\* the camera, the vendor and the notification channels answer or time out
\* (every request has a timeout), and every handler returns.
CycleProgress == \A t \in Threads : WF_vars(Cycle(t))

LiveSpec == LiveInit /\ [][Next]_vars /\ CycleProgress

\* ---------------------------------------- the notification dispatcher alone

\* The plugin after startup with some notification settings saved, the
\* monitor holding a snapshot path or none.
NotifyInit ==
    /\ slots = 1
    /\ budget = 0
    /\ \E snap \in {None, Some(1)} :
           state = [FreshState EXCEPT !.last_snapshot_path = snap]
    /\ timer = None
    /\ snapshot_count = 0
    /\ lock = None
    /\ \E n \in NotifChoices :
           settings = [DefaultSettings(1) EXCEPT !.notifications = n]
    /\ entries = <<>>
    /\ next_id = 0
    /\ sessions = <<>>
    /\ current = None
    /\ cost = FreshCost
    /\ pc = [t \in Threads |-> IF t \in Ctl THEN "idle" ELSE "dead"]
    /\ loc = [t \in Threads |-> NoLocals]
    /\ cancelled = [t \in Timers |-> FALSE]
    /\ calls = <<>>
    /\ result = None

\* GuardianEyePlugin.send_failure_notifications, lines 290-296, with
\* notifications.send_failure_notifications: the snapshot file exists or not,
\* and the requests of the channels in failing raise.
SendFailureNotifications(exists, failing) ==
    LET snapshot_path == state.last_snapshot_path
        d == Dispatch(settings.notifications,
                      snapshot_path # None /\ exists, failing)
    IN  /\ calls' = d.calls
        /\ result' = Some(IF d.raised THEN "raised" ELSE "returned")
        /\ UNCHANGED <<state, timer, snapshot_count, lock, settings, pc, loc,
                       cancelled, slots, budget>>
        /\ UNCHANGED storeVars

NotifyNext ==
    \E exists \in BOOLEAN, failing \in SUBSET {"webhook", "discord", "telegram"} :
        SendFailureNotifications(exists, failing)

NotifySpec == NotifyInit /\ [][NotifyNext]_vars

\* ------------------------------------------------ the verdict history alone

\* The plugin after startup with nothing going on in the monitor.
AtRest ==
    /\ slots = 1
    /\ state = FreshState
    /\ timer = None
    /\ snapshot_count = 0
    /\ lock = None
    /\ settings = DefaultSettings(1)
    /\ cost = FreshCost
    /\ pc = [t \in Threads |-> IF t \in Ctl THEN "idle" ELSE "dead"]
    /\ loc = [t \in Threads |-> NoLocals]
    /\ cancelled = [t \in Timers |-> FALSE]
    /\ calls = <<>>
    /\ result = None

\* A verdict as record_verdict hands it to the store.
StoredVerdict(failed) ==
    LET p == ParsedReply[IF failed THEN ReplyFail ELSE ReplyOk]
    IN  [failed |-> p.failed, reason |-> p.reason, confidence |-> p.confidence,
         provider |-> "openai", model |-> "gpt-4o-mini", latency_ms |-> 40,
         cost |-> CallCost]

\* The entry add() builds for the id-th verdict of the store's life; the
\* latencies differ from one call to the next.
StoredEntry(id, failed) ==
    [NewEntry(id, StoredVerdict(failed), Some(id), id, None, 0)
        EXCEPT !.latency_ms = 40 + (id % 4)]

\* verdict_history.json as n calls of add() left it (_load, lines 28-35):
\* every other verdict a failing one.
LoadedEntries(n) == [i \in 1..n |-> StoredEntry(i, i % 2 = 1)]

\* The sizes of the loaded history: empty, small, one below the cap, full.
HistorySizes == {0, 1, 2, 5, MAX_VERDICTS - 1, MAX_VERDICTS}

HistoryInit ==
    /\ AtRest
    /\ budget = MaxStoreOps
    /\ \E n \in HistorySizes :
           /\ entries = LoadedEntries(n)
           /\ next_id = n
    /\ sessions = <<>>
    /\ current = None

\* A call of a store's method, and what it leaves alone.
StoreCall(method) ==
    /\ budget > 0
    /\ budget' = budget - 1
    /\ calls' = <<method>>
    /\ UNCHANGED <<state, timer, snapshot_count, lock, settings, cost, pc,
                   loc, cancelled, slots>>

\* VerdictHistory.add, lines 45-66.
VerdictHistoryAdd(failed) ==
    /\ StoreCall("add")
    /\ entries' = HistoryAdd(entries, StoredEntry(next_id + 1, failed))
    /\ next_id' = next_id + 1
    /\ result' = Some(StoredEntry(next_id + 1, failed))
    /\ UNCHANGED <<sessions, current>>

\* The ids asked for: none of the store's, its oldest and its newest.
IdChoices == {"unknown", "oldest", "newest"}

IdOf(which) ==
    CASE which = "unknown" -> 0
      [] which = "oldest" -> next_id - Len(entries) + 1
      [] which = "newest" -> next_id

\* VerdictHistory.mark_false_positive, lines 68-74.
VerdictHistoryMark(which) ==
    /\ StoreCall("mark_false_positive")
    /\ entries' = MarkFalsePositive(entries, IdOf(which))
    /\ result' = Some(HasEntry(entries, IdOf(which)))
    /\ UNCHANGED <<next_id, sessions, current>>

\* VerdictHistory.clear, lines 79-81.
VerdictHistoryClear ==
    /\ StoreCall("clear")
    /\ entries' = <<>>
    /\ result' = None
    /\ UNCHANGED <<next_id, sessions, current>>

\* VerdictHistory.get_entries, lines 76-77.
VerdictHistoryGet(limit) ==
    /\ StoreCall("get_entries")
    /\ result' = Some(GetEntries(entries, limit))
    /\ UNCHANGED <<entries, next_id, sessions, current>>

\* VerdictHistory.get_statistics, lines 83-103.
VerdictHistoryStats ==
    /\ StoreCall("get_statistics")
    /\ result' = Some(GetStatistics(entries))
    /\ UNCHANGED <<entries, next_id, sessions, current>>

\* The limits asked for: none, few, the default, more than the store holds.
LimitChoices == {0, 1, 2, 50, MAX_VERDICTS + 1}

HistoryNext ==
    \/ \E failed \in BOOLEAN : VerdictHistoryAdd(failed)
    \/ \E which \in IdChoices : VerdictHistoryMark(which)
    \/ VerdictHistoryClear
    \/ \E limit \in LimitChoices : VerdictHistoryGet(limit)
    \/ VerdictHistoryStats

HistorySpec == HistoryInit /\ [][HistoryNext]_vars

\* --------------------------------------------------- the session log alone

\* SessionHistory._save, lines 124-130: the document written.
SavedSessions(ss) == LastN(ss, MAX_SESSIONS_SAVED)

\* The summary of a session that saw n non-failing verdicts.
LoadedSession(n) ==
    Finalized([NewSession(Some("print.gcode")) EXCEPT !.cycles = n,
                                                       !.ok_count = n,
                                                       !.total_cost = n * CallCost],
              FALSE)

\* session_history.json as n sessions left it (_load, lines 115-122).
LoadedSessions(n) == [i \in 1..n |-> LoadedSession(i)]

\* The sizes of the loaded log: empty, small, one below the cap, full.
SessionSizes == {0, 1, MAX_SESSIONS_SAVED - 1, MAX_SESSIONS_SAVED}

SessionInit ==
    /\ AtRest
    /\ budget = MaxSessionOps
    /\ entries = <<>>
    /\ next_id = 0
    /\ \E n \in SessionSizes : sessions = LoadedSessions(n)
    /\ current = None

\* SessionHistory.start_session, lines 132-144.
SessionStart ==
    /\ StoreCall("start_session")
    /\ current' = Some(NewSession(Some("print.gcode")))
    /\ result' = None
    /\ UNCHANGED <<entries, next_id, sessions>>

\* SessionHistory.record_verdict, lines 146-154.
SessionRecordVerdict(failed) ==
    /\ StoreCall("record_verdict")
    /\ current' = SessionRecord(current, failed, CallCost)
    /\ result' = None
    /\ UNCHANGED <<entries, next_id, sessions>>

\* Variant of SessionEnd: the session stays open after its summary is logged.
SessionEndKeepOpen(emergency) ==
    /\ StoreCall("end_session")
    /\ sessions' = SessionsAfterEnd(sessions, current, emergency)
    /\ current' = current
    /\ result' = IF current = None THEN None
                 ELSE Some(Finalized(current[1], emergency))
    /\ UNCHANGED <<entries, next_id>>

\* SessionHistory.end_session, lines 156-172.
SessionEnd(emergency) ==
    /\ StoreCall("end_session")
    /\ sessions' = SessionsAfterEnd(sessions, current, emergency)
    /\ current' = None
    /\ result' = IF current = None THEN None
                 ELSE Some(Finalized(current[1], emergency))
    /\ UNCHANGED <<entries, next_id>>

\* SessionHistory.get_sessions, lines 174-175.
SessionGet(limit) ==
    /\ StoreCall("get_sessions")
    /\ result' = Some(GetSessions(sessions, limit))
    /\ UNCHANGED <<entries, next_id, sessions, current>>

\* The limits asked for: few, the default, more than the cap.
SessionLimitChoices == {1, 20, MAX_SESSIONS_SAVED + 1}

SessionNext ==
    \/ SessionStart
    \/ \E failed \in BOOLEAN : SessionRecordVerdict(failed)
    \/ \E emergency \in BOOLEAN : SessionEnd(emergency)
    \/ \E limit \in SessionLimitChoices : SessionGet(limit)

SessionSpec == SessionInit /\ [][SessionNext]_vars

\* ------------------------------------------------- the verdict parser alone

MaxParseOps == 1

\* The literals as a vendor may write them.
FailUpper == LitFail
FailMixed == <<"V", "e", "r", "d", "i", "c", "t", ":", " ", "F", "a", "i", "l">>
OkUpper == LitOk
OkLower == <<"v", "e", "r", "d", "i", "c", "t", ":", " ", "o", "k">>

\* The replies explored, in parts: text in front, a literal, a separator,
\* a word, perhaps a second literal, and an end.
Prefixes == {<<>>, <<" ">>, <<"x", " ">>}
FirstLiterals == {FailUpper, FailMixed, OkUpper, OkLower}
Separators == {<<>>, <<"|">>, <<" ", "|", " ">>}
Words == {<<>>, <<"a">>}
SecondLiterals == {<<>>, <<" ">> \o OkUpper, <<" ">> \o FailMixed}
Endings == {<<>>, <<"\n">>, <<" ", "|", " ", "b">>}

BuildReply(pre, lit, sep, word, second, end) ==
    pre \o lit \o sep \o word \o second \o end

\* The plugin at rest, about to be handed vendor replies.
ParseInit ==
    /\ AtRest
    /\ budget = MaxParseOps
    /\ entries = <<>>
    /\ next_id = 0
    /\ sessions = <<>>
    /\ current = None

\* _parse_verdict(reply), lines 57-76: the call with its argument, and the
\* tuple it returns.
ProviderParse(pre, lit, sep, word, second, end) ==
    /\ budget > 0
    /\ budget' = budget - 1
    /\ calls' = <<"_parse_verdict", BuildReply(pre, lit, sep, word, second, end)>>
    /\ result' = Some(ParseVerdict(BuildReply(pre, lit, sep, word, second, end)))
    /\ UNCHANGED <<state, timer, snapshot_count, lock, settings, cost, pc,
                   loc, cancelled, slots>>
    /\ UNCHANGED storeVars

ParseNext ==
    \E pre \in Prefixes, lit \in FirstLiterals, sep \in Separators,
       word \in Words, second \in SecondLiterals, end \in Endings :
        ProviderParse(pre, lit, sep, word, second, end)

ParseSpec == ParseInit /\ [][ParseNext]_vars

\* ------------------------------------------------------------ properties

\* How often the step that led to this state called collaborator c.
Count(cs, c) == Cardinality({i \in DOMAIN cs : cs[i] = c})

\* The step recorded a verdict (record_verdict ran): the newest entry.
Recorded == next_id' = next_id + 1
Newest(es) == es[Len(es)]

\* The threshold in force: fail_strikes, 3 when it is unset (0).
Needed == StrikesOr(settings.fail_strikes)

\* C1  Strike escalation.  A failing verdict adds exactly one strike; while
\* the count stays below the threshold the cycle ends without cancel_print
\* and without stop(); the verdict that reaches the threshold calls
\* cancel_print exactly once and the same cycle then calls stop() exactly
\* once.  Nothing but a verdict or the reset of start() changes the count.
C1_StrikeEscalation ==
    [][ /\ (Recorded /\ Newest(entries').failed) =>
             LET n == state.consecutive_failures + 1
             IN  /\ state'.consecutive_failures = n
                 /\ IF n < Needed
                    THEN /\ Count(calls', "cancel_print") = 0
                         /\ Count(calls', "stop") = 0
                         /\ state'.active = state.active
                         /\ timer' = timer
                         /\ \A t \in Threads : pc'[t] # "notify"
                    ELSE /\ Count(calls', "cancel_print") = 1
                         /\ Count(calls', "stop") = 0
                         /\ \E t \in Threads : pc[t] = "analyze" /\ pc'[t] = "notify"
        /\ \A t \in Threads :
             (pc[t] = "notify" /\ pc'[t] # "notify") =>
                 /\ Count(calls', "stop") = 1
                 /\ Count(calls', "cancel_print") = 0
                 /\ ~state'.active
                 /\ timer' = None
        /\ (state'.consecutive_failures # state.consecutive_failures) =>
             (Recorded \/ \E c \in Ctl : pc[c] = "start_reset" /\ pc'[c] # "start_reset")
      ]_vars

\* Two strikes against a threshold of two: the second one stopped the monitor.
C1_Witness ==
    /\ settings.fail_strikes = 2
    /\ state.consecutive_failures = 2
    /\ state.cycle_count = 2
    /\ Count(calls, "stop") = 1
    /\ Count(calls, "send_failure_notifications") = 1
    /\ ~state.active

\* C2  A cycle that produces a non-failing verdict leaves consecutive_failures
\* at 0, whatever it was before.
C2_ResetOnOk ==
    [][ (Recorded /\ ~Newest(entries').failed) => state'.consecutive_failures = 0 ]_vars

\* A non-failing verdict in cycle 2 after a strike in cycle 1.
C2_Witness ==
    /\ Len(entries) = 2
    /\ entries[1].failed /\ entries[1].cycle = 1
    /\ ~entries[2].failed /\ entries[2].cycle = 2
    /\ Count(calls, "record_verdict") = 1
    /\ state.consecutive_failures = 0
    /\ state.active

\* C3  Whenever the monitor is active and no call is in progress,
\* consecutive_failures is at most the threshold in force.
C3_StrikesBounded ==
    (state.active /\ \A t \in Threads : Quiet(t)) =>
        state.consecutive_failures <= Needed

\* C4  cancel_print is called only by a step that recorded a failing verdict
\* and thereby brought consecutive_failures to the threshold or above; it is
\* called at most once by such a step.
C4_AbortOnlyOnConfirmedFailure ==
    [][ Count(calls', "cancel_print") > 0 =>
          /\ Count(calls', "cancel_print") = 1
          /\ Recorded
          /\ Newest(entries').failed
          /\ state'.last_verdict = Some(Verdict(ReplyFail, Newest(entries').latency_ms))
          /\ state'.consecutive_failures = state.consecutive_failures + 1
          /\ state'.consecutive_failures >= Needed
      ]_vars

\* cancel_print was called, by the strike that reached the threshold.
C4_Witness ==
    /\ Count(calls, "cancel_print") = 1
    /\ state.failure_detected
    /\ state.consecutive_failures = Needed
    /\ \E t \in Threads : pc[t] = "notify"

\* Replies that hold neither verdict literal, in any letter case.
NoLiteralReplies ==
    {r \in Replies : ~Contains(Upper(r), LitFail) /\ ~Contains(Upper(r), LitOk)}

\* The cycle of thread t has returned: it holds no lock and is at no cycle step.
Returned(t) == lock' = None /\ pc'[t] \notin {"lock", "snap", "analyze", "notify"}

\* C5  As claimed: a reply without a verdict literal gives a non-failing
\* verdict with confidence 0 whose reason is the first 200 characters of
\* the reply as received; the cycle adds no strike and calls no cancel_print.
C5_FallbackRawReply ==
    [][ \A t \in Threads, r \in NoLiteralReplies, l \in LatencyChoices, c \in BOOLEAN :
          CycleAnalyzeOk(t, r, l, c) =>
              /\ state'.last_verdict # None
              /\ ~state'.last_verdict[1].failed
              /\ state'.last_verdict[1].confidence = 0
              /\ state'.last_verdict[1].reason = Take(r, ReasonLimit)
              /\ state'.consecutive_failures <= state.consecutive_failures
              /\ Count(calls', "cancel_print") = 0
      ]_vars

\* C5  Amended: the reason is the first 200 characters of the reply with
\* its leading and trailing whitespace removed; the rest as claimed.
C5_FallbackStrippedReply ==
    [][ \A t \in Threads, r \in NoLiteralReplies, l \in LatencyChoices, c \in BOOLEAN :
          CycleAnalyzeOk(t, r, l, c) =>
              /\ state'.last_verdict # None
              /\ ~state'.last_verdict[1].failed
              /\ state'.last_verdict[1].confidence = 0
              /\ state'.last_verdict[1].reason = Take(Strip(r), ReasonLimit)
              /\ Newest(entries').reason = Take(Strip(r), ReasonLimit)
              /\ ~Newest(entries').failed
              /\ state'.consecutive_failures <= state.consecutive_failures
              /\ state'.failure_detected = state.failure_detected
              /\ Count(calls', "cancel_print") = 0
              /\ Returned(t)
      ]_vars

\* A reply without a literal, longer than the limit, arrived after a strike.
C5_Witness ==
    /\ Len(entries) = 2
    /\ entries[1].failed
    /\ entries[2].reason = Take(Strip(ReplyOther), ReasonLimit)
    /\ Len(entries[2].reason) = ReasonLimit
    /\ state.last_verdict = Some(Verdict(ReplyOther, entries[2].latency_ms))
    /\ state.consecutive_failures = 0
    /\ Count(calls, "record_verdict") = 1

\* C6  A cycle whose snapshot fails appends one error, publishes the state
\* and returns; every other field of MonitorState (consecutive_failures,
\* last_verdict, last_snapshot_path, active), the verdict history, the
\* session records, the cost tracker and the timer are unchanged, and neither
\* cancel_print nor stop() is called.
C6_SnapshotFailure ==
    [][ \A t \in Threads :
          CycleSnapshotFail(t) =>
              /\ state'.errors = Append(state.errors, <<loc[t].cycle_num, "snapshot failed">>)
              /\ [state' EXCEPT !.errors = state.errors] = state
              /\ Count(calls', "send_state_update") = 1
              /\ Count(calls', "cancel_print") = 0
              /\ Count(calls', "stop") = 0
              /\ Count(calls', "analyze") = 0
              /\ UNCHANGED <<entries, next_id, sessions, current, cost, timer>>
              /\ Returned(t)
      ]_vars

\* A snapshot failure in an active monitor that already holds a strike.
C6_Witness ==
    /\ state.errors # <<>>
    /\ Newest(state.errors) = <<state.cycle_count, "snapshot failed">>
    /\ Count(calls, "capture_snapshot") = 1
    /\ Count(calls, "send_state_update") = 1
    /\ state.active
    /\ timer # None
    /\ state.consecutive_failures = 1
    /\ state.last_verdict # None

\* C7  A cycle whose analysis raises appends one error and changes nothing
\* else of MonitorState (consecutive_failures, last_verdict, active); no
\* verdict is recorded, nothing is cancelled or stopped, the timer stays
\* scheduled and a timer thread that ran the cycle goes back to waiting for
\* its next tick.
C7_AnalysisError ==
    [][ \A t \in Threads :
          CycleAnalyzeError(t) =>
              /\ state'.errors = Append(state.errors, <<loc[t].cycle_num, "vision error">>)
              /\ [state' EXCEPT !.errors = state.errors] = state
              /\ Count(calls', "record_verdict") = 0
              /\ Count(calls', "cancel_print") = 0
              /\ Count(calls', "stop") = 0
              /\ UNCHANGED <<entries, next_id, sessions, current, cost, timer>>
              /\ Returned(t)
              /\ (t \in Timers /\ ~cancelled[t]) => pc'[t] = "wait"
              /\ \A u \in Threads \ {t} : pc'[u] = pc[u]
      ]_vars

\* Strike, analysis error, strike: the third cycle ran and counted two.
C7_Witness ==
    /\ state.errors = << <<2, "vision error">> >>
    /\ state.cycle_count = 3
    /\ state.consecutive_failures = 2
    /\ Count(calls, "record_verdict") = 1
    /\ state.active
    /\ timer # None

\* C8  As claimed: after the snapshot the cycle skips the analysis exactly
\* when the layer is known and below the configured min_layer_for_vision.
C8_GateAsConfigured ==
    [][ \A t \in Threads :
          CycleSnapshotOk(t) =>
              LET below == /\ loc[t].layer # None
                           /\ loc[t].layer[1] < settings.min_layer_for_vision
              IN  IF below
                  THEN /\ Returned(t)
                       /\ Count(calls', "send_state_update") = 1
                       /\ state'.consecutive_failures = state.consecutive_failures
                       /\ UNCHANGED <<entries, next_id>>
                  ELSE pc'[t] = "analyze"
      ]_vars

\* C9  A monitoring start (PrintStarted or the start command) that finds
\* the monitor active changes nothing of the monitor: MonitorState, the
\* timer, the snapshot counter, the lock and every thread's position stay
\* as they were, so no cycle is run and no timer is created.
C9_StartWhileRunning ==
    [][ ((PrintStarted \/ ApiStartMonitoring) /\ state.active) =>
          /\ UNCHANGED <<state, timer, snapshot_count, lock, pc, loc, cancelled>>
          /\ Count(calls', "timer.start") = 0
      ]_vars

\* The start command arrived while the monitor was running: the session
\* record is new although the monitor still holds the verdict of its cycle.
C9_Witness ==
    /\ state.active
    /\ timer # None
    /\ state.cycle_count = 1
    /\ state.last_verdict # None
    /\ current = Some(NewSession(None))
    /\ \A t \in Threads : Quiet(t)
    /\ calls = <<>>

\* C10  With calls run one at a time: start() resets MonitorState and sets
\* active; when it comes to create its timer exactly one cycle has run
\* (cycle_count = 1); creating the timer runs no cycle, and the new timer
\* thread waits one interval before its first call.
C10_StartRunsOneCycle ==
    [][ \A c \in Ctl :
          /\ StartReset(c) =>
                /\ state' = [FreshState EXCEPT !.active = TRUE]
                /\ snapshot_count' = 0
          /\ StartTimer(c) =>
                /\ state.cycle_count = 1
                /\ state' = state
                /\ timer' # None
                /\ pc[timer'[1]] = "dead"
                /\ pc'[timer'[1]] = "wait"
                /\ pc'[c] = "idle"
      ]_vars

\* start() has returned after its one cycle, the timer thread is waiting.
C10_Witness ==
    /\ Count(calls, "timer.start") = 1
    /\ state.cycle_count = 1
    /\ state.active
    /\ state.last_verdict # None
    /\ timer # None
    /\ pc[timer[1]] = "wait"
    /\ \A c \in Ctl : pc[c] = "idle"

\* A step that ran stop(), and a state whose last step ran it.
StopStep == Count(calls', "stop") = 1
JustStopped == Count(calls, "stop") = 1

\* C11  stop() is idempotent.  Every stop() cancels the timer it finds (a
\* sleeping timer thread ends, one inside its function is flagged to end),
\* clears the handle, sets active to false, changes no other field and
\* returns the dictionary of the state it leaves.  A stop() that directly
\* follows a stop() changes neither MonitorState nor the handle and returns
\* the same dictionary; on a monitor that was never started it leaves the
\* fresh state and returns its dictionary.
C11_StopIdempotent ==
    [][ StopStep =>
          /\ timer' = None
          /\ state' = [state EXCEPT !.active = FALSE]
          /\ result' = Some(ToDict(state'))
          /\ timer # None =>
                \/ pc'[timer[1]] = "dead"
                \/ cancelled'[timer[1]]
          /\ JustStopped =>
                /\ state' = state
                /\ timer' = timer
                /\ result' = result
          /\ (state = FreshState /\ timer = None) =>
                /\ state' = FreshState
                /\ result' = Some(ToDict(FreshState))
      ]_vars

\* stop() has run on a monitor that was never started: no start command was
\* ever received (no session on record), the state is the fresh one and the
\* call returned its dictionary.
C11_Witness ==
    /\ JustStopped
    /\ Count(calls, "timer.cancel") = 0
    /\ state = FreshState
    /\ timer = None
    /\ sessions = <<>>
    /\ current = None
    /\ result = Some(ToDict(FreshState))

\* Timer thread t begins a cycle: its tick passes the active check and
\* increments cycle_count.
TickBeginsCycle(t) ==
    /\ t \in Timers
    /\ pc[t] = "lock"
    /\ pc'[t] = "snap"
    /\ state'.cycle_count = state.cycle_count + 1

\* The auto-stop of a confirmed failure has returned and start() has not
\* been entered since: failure_detected is cleared only by start()'s reset,
\* and the aborting cycle has released the lock.
StoppedByAbort ==
    /\ state.failure_detected
    /\ lock = None
    /\ Starting = {}

\* C12  After stop() returns no scheduled cycle begins until the next
\* start(): once the auto-stop of a confirmed failure has returned, no timer
\* thread's tick increments cycle_count before start() is entered again.
C12_NoTickAfterStop ==
    [][ \A t \in Timers : TickBeginsCycle(t) => ~StoppedByAbort ]_vars

\* Thread t is inside the body of a cycle (_monitor_cycle past its active
\* check), whoever called _run_cycle: start(), the manual check or a tick.
InBody(t) == pc[t] \in {"snap", "analyze", "notify"}

\* C13  Cycle bodies are mutually exclusive: at most one thread is inside a
\* cycle body at any time, it is the holder of the lock, and the lock is
\* held by nobody else; a manual check, the first cycle of start() and the
\* timer ticks therefore never write MonitorState from two bodies at once.
C13_CycleBodiesExclusive ==
    /\ \A t, u \in Threads : (InBody(t) /\ InBody(u)) => t = u
    /\ \A t \in Threads : InBody(t) <=> lock = Some(t)

\* A tick's cycle is analysing while a manual check waits for the lock.
C13_Witness ==
    \E t \in Timers :
        /\ pc[t] = "analyze"
        /\ lock = Some(t)
        /\ pc[Api] = "lock"
        /\ ~InBody(Api)

\* The step with which the cycle of thread t ends: t leaves the cycle body.
CycleEnds(t) == InBody(t) /\ pc'[t] \notin {"snap", "analyze", "notify"}

\* C14  Every cycle that incremented cycle_count publishes the state before
\* it ends: the step with which a cycle ends calls _send_state_update,
\* whatever the outcome (snapshot failure, stage-gate skip, analysis error,
\* non-failing verdict, partial strike, confirmed failure through stop(),
\* unexpected exception), and it is always the step's last call.
C14_CyclePublishes ==
    [][ \A t \in Threads :
          CycleEnds(t) =>
            /\ Count(calls', "send_state_update") >= 1
            /\ calls'[Len(calls')] = "send_state_update"
      ]_vars

\* A cycle ended in the outer exception handler and published the state.
C14_Witness ==
    /\ calls = <<"send_state_update">>
    /\ state.cycle_count >= 1
    /\ state.errors # <<>>
    /\ state.errors[Len(state.errors)] = <<state.cycle_count, "unexpected error">>
    /\ lock = None

\* C15  On a confirmed failure whose cancel_print raises, emergency_stop_sent
\* keeps its value (false on a fresh run) while failure_detected and the
\* reason are set and the cycle goes on to the notifications; the step that
\* follows attempts the dispatch once and, whether the dispatch returns or
\* raises, runs stop(): active becomes false, the timer handle is cleared
\* and the timer thread is cancelled.
C15_AbortFailureStillStops ==
    [][ \A t \in Threads :
          /\ (\E r \in Replies, l \in LatencyChoices :
                 /\ Confirmed(state, Verdict(r, l))
                 /\ CycleAnalyzeOk(t, r, l, FALSE))
             => /\ state'.emergency_stop_sent = state.emergency_stop_sent
                /\ state'.failure_detected
                /\ state'.failure_reason # None
                /\ Count(calls', "cancel_print") = 1
                /\ pc'[t] = "notify"
          /\ \A notifyOk \in BOOLEAN :
                CycleNotifyAndStop(t, notifyOk)
                => /\ Count(calls', "send_failure_notifications") = 1
                   /\ Count(calls', "stop") = 1
                   /\ state' = [state EXCEPT !.active = FALSE]
                   /\ timer' = None
                   /\ timer # None =>
                         \/ pc'[timer[1]] = "dead"
                         \/ cancelled'[timer[1]]
      ]_vars

\* The abort call and the dispatch both raised and the monitor has stopped:
\* the failure is on record without the abort flag, the timer was cancelled.
C15_Witness ==
    /\ state.failure_detected
    /\ state.failure_reason # None
    /\ ~state.emergency_stop_sent
    /\ ~state.active
    /\ timer = None
    /\ \A t \in Timers : pc[t] = "dead"
    /\ calls = <<"send_failure_notifications", "log_notify_error", "stop",
                 "timer.cancel", "send_state_update">>

\* The channel a request call went to, "" for any other call.
RequestChannel(call) ==
    CASE call = "webhook.post_json" -> "webhook"
      [] call \in {"discord.post_multipart", "discord.post_json"} -> "discord"
      [] call \in {"telegram.sendPhoto", "telegram.sendMessage"} -> "telegram"
      [] OTHER -> ""

\* The channels the calls cs made requests to, in order.
Attempts(cs) ==
    LET reqs == SelectSeq(cs, LAMBDA c : RequestChannel(c) # "")
    IN  [i \in DOMAIN reqs |-> RequestChannel(reqs[i])]

\* The channels with their flag set and their address filled in, in order.
SelectedChannels(notif) ==
    SelectSeq(Channels, LAMBDA ch : ChannelSelected(notif, ch))

\* C16  The fan-out is best-effort and isolated per channel: for every
\* combination of enabled and configured channels and every set of channels
\* whose request fails, one request goes to each enabled and configured
\* channel, in the order webhook, chat webhook, bot messaging; each failure
\* is logged once, and the dispatch returns to its caller without raising.
C16_FanOutIsolated ==
    [][ \A exists \in BOOLEAN, failing \in SUBSET {"webhook", "discord", "telegram"} :
          SendFailureNotifications(exists, failing) =>
            /\ Attempts(calls') = SelectedChannels(settings.notifications)
            /\ Count(calls', "log_warning") =
                   Cardinality({i \in DOMAIN Attempts(calls') :
                                   Attempts(calls')[i] \in failing})
            /\ result' = Some("returned")
      ]_vars

\* All three channels are enabled, the requests of all three failed (the
\* snapshot was attached to two of them) and the dispatch returned.
C16_Witness ==
    /\ calls = <<"webhook.post_json", "log_warning",
                 "discord.post_multipart", "log_warning",
                 "telegram.sendPhoto", "log_warning">>
    /\ result = Some("returned")
    /\ SelectedChannels(settings.notifications) = Channels

\* C17  Every verdict of a successful analysis is persisted before the
\* strike policy acts: the step that receives the reply appends exactly one
\* entry (the verdict's, after the entries already held), raises the cost
\* tracker's session and lifetime call counts by one each and the open
\* session's cycles by one, and calls record_verdict before any abort; this
\* includes the verdict that triggers the abort.
C17_VerdictPersisted ==
    [][ \A t \in Threads, r \in Replies, l \in LatencyChoices, c \in BOOLEAN :
          CycleAnalyzeOk(t, r, l, c) =>
            /\ Len(entries') = Len(entries) + 1
            /\ SubSeq(entries', 1, Len(entries)) = entries
            /\ Newest(entries').failed = Verdict(r, l).failed
            /\ Newest(entries').reason = Verdict(r, l).reason
            /\ Newest(entries').cycle = loc[t].cycle_num
            /\ cost'.session_calls = cost.session_calls + 1
            /\ cost'.lifetime_calls = cost.lifetime_calls + 1
            /\ current # None =>
                  /\ current' # None
                  /\ current'[1].cycles = current[1].cycles + 1
            /\ current = None => current' = None
            /\ Count(calls', "record_verdict") = 1
            /\ \A i, j \in DOMAIN calls' :
                  (calls'[i] = "record_verdict" /\ calls'[j] = "cancel_print")
                      => i < j
      ]_vars

\* The verdict that triggered the abort is on record in all three stores
\* while its cycle is still on its way to the notifications.
C17_Witness ==
    \E t \in Threads :
        /\ pc[t] = "notify"
        /\ calls = <<"analyze", "record_verdict", "cancel_print">>
        /\ entries # <<>>
        /\ Newest(entries).failed
        /\ Newest(entries).cycle = state.cycle_count
        /\ cost.lifetime_calls = Len(entries)
        /\ current # None
        /\ current[1].cycles = Len(entries)
        /\ current[1].fail_count >= 1

\* The smaller of two numbers.
Min(a, b) == IF a < b THEN a ELSE b

\* C18  After any sequence of add, mark_false_positive and clear the verdict
\* history holds at most 500 entries, and they are the most recently added
\* ones in insertion order (their ids run without a gap up to the newest id
\* handed out); an add puts its entry last and drops the oldest entry only
\* when the history is already full.
C18_HistoryCapped ==
    [][ /\ Len(entries') <= MAX_VERDICTS
        /\ \A i \in DOMAIN entries' :
              entries'[i].id = next_id' - Len(entries') + i
        /\ \A failed \in BOOLEAN :
              VerdictHistoryAdd(failed) =>
                /\ Len(entries') = Min(Len(entries) + 1, MAX_VERDICTS)
                /\ Newest(entries') = StoredEntry(next_id + 1, failed)
      ]_vars

\* A full history took two more verdicts: the two oldest entries are gone,
\* the 500 newest are held.
C18_Witness ==
    /\ Len(entries) = MAX_VERDICTS
    /\ next_id = MAX_VERDICTS + 2
    /\ entries[1].id = 3
    /\ Newest(entries).id = MAX_VERDICTS + 2

\* The min(k, size) most recently added entries of es, newest first.
Recent(es, k) == [i \in 1..Min(k, Len(es)) |-> es[Len(es) + 1 - i]]

\* C19  For every k >= 0 and every history content get_entries(k) returns
\* exactly the min(k, size) most recently added entries, newest first; in
\* particular get_entries(0) returns no entries.
C19_GetEntriesNewestFirst ==
    [][ \A limit \in LimitChoices :
          VerdictHistoryGet(limit) => result' = Some(Recent(entries, limit))
      ]_vars

\* C20  The session log is bounded at 100: after any number of
\* start_session / end_session pairs the list held by the store has at most
\* 100 summaries, get_sessions returns at most 100 for any limit, and the
\* document written has at most 100.
C20_SessionLogCapped ==
    /\ Len(sessions) <= MAX_SESSIONS_SAVED
    /\ Len(SavedSessions(sessions)) <= MAX_SESSIONS_SAVED
    /\ (calls = <<"get_sessions">>) => Len(result[1]) <= MAX_SESSIONS_SAVED

\* C21  end_session with no session open returns nothing and leaves the log
\* as it is; with a session open it appends exactly one summary (the open
\* session's counts, behind the summaries already held), returns that
\* summary and closes the session, so an end_session that directly follows
\* an end_session appends nothing.
C21_EndSession ==
    [][ \A emergency \in BOOLEAN :
          SessionEnd(emergency) =>
            /\ current' = None
            /\ current = None =>
                  /\ result' = None
                  /\ sessions' = sessions
            /\ current # None =>
                  /\ Len(sessions') = Len(sessions) + 1
                  /\ SubSeq(sessions', 1, Len(sessions)) = sessions
                  /\ result' = Some(Newest(sessions'))
                  /\ Newest(sessions').cycles = current[1].cycles
                  /\ Newest(sessions').ok_count = current[1].ok_count
                  /\ Newest(sessions').fail_count = current[1].fail_count
                  /\ Newest(sessions').emergency_stop = emergency
            /\ calls = <<"end_session">> => sessions' = sessions
      ]_vars

\* An open session that saw a verdict was ended: its summary is the newest
\* of the log and was returned, and no session is open.
C21_Witness ==
    /\ calls = <<"end_session">>
    /\ current = None
    /\ sessions # <<>>
    /\ result = Some(Newest(sessions))
    /\ Newest(sessions).cycles = 1
    /\ Len(sessions) = MAX_SESSIONS_SAVED

\* The absolute value of an integer.
Abs(x) == IF x < 0 THEN -x ELSE x

\* s (in tenths of a percent) is ok / total * 100 rounded to one decimal:
\* no tenth is nearer, and of two equally near ones s is the even one.
IsRoundedScore(s, ok, total) ==
    /\ 2 * Abs(s * total - ok * 1000) <= total
    /\ 2 * Abs(s * total - ok * 1000) = total => s % 2 = 0

\* C22  Between start_session and end_session every record_verdict adds one
\* to cycles and one to ok_count or fail_count (as the verdict says), so that
\* cycles = ok_count + fail_count = the number of calls; the finalized
\* summary keeps these counts and has print_score = ok_count / cycles * 100
\* rounded to one decimal when cycles > 0 and none otherwise; record_verdict
\* with no session open changes nothing.
C22_SessionCounts ==
    [][ /\ SessionStart =>
              /\ current'[1].cycles = 0
              /\ current'[1].ok_count = 0
              /\ current'[1].fail_count = 0
        /\ \A failed \in BOOLEAN :
              SessionRecordVerdict(failed) =>
                /\ sessions' = sessions
                /\ current = None => current' = None
                /\ current # None =>
                      /\ current' # None
                      /\ current'[1].cycles = current[1].cycles + 1
                      /\ current'[1].cycles =
                             current'[1].ok_count + current'[1].fail_count
                      /\ current'[1].fail_count =
                             current[1].fail_count + (IF failed THEN 1 ELSE 0)
                      /\ current'[1].ok_count =
                             current[1].ok_count + (IF failed THEN 0 ELSE 1)
        /\ \A emergency \in BOOLEAN :
              (SessionEnd(emergency) /\ current # None) =>
                LET s == Newest(sessions')
                IN  /\ s.cycles = current[1].cycles
                    /\ s.cycles = s.ok_count + s.fail_count
                    /\ s.cycles = 0 => s.print_score = None
                    /\ s.cycles > 0 =>
                          /\ s.print_score # None
                          /\ IsRoundedScore(s.print_score[1], s.ok_count, s.cycles)
      ]_vars

\* A session with three failing verdicts and one non-failing verdict was
\* ended: cycles 4, print score 25.0.
C22_Witness ==
    /\ calls = <<"end_session">>
    /\ sessions # <<>>
    /\ Len(sessions) = 1
    /\ Newest(sessions).cycles = 4
    /\ Newest(sessions).fail_count = 3
    /\ Newest(sessions).ok_count = 1
    /\ Newest(sessions).print_score = Some(250)

\* The dictionary get_statistics returned in the step that led here.
StatsReturned == calls = <<"get_statistics">>
Stats == result[1]
Flagged(es) == Cardinality({i \in DOMAIN es : es[i].false_positive})
Fails(es) == Cardinality({i \in DOMAIN es : es[i].failed})
Divisor(es) == IF Fails(es) > 1 THEN Fails(es) ELSE 1

\* C23  get_statistics over any history returns total = ok + fail = the
\* number of entries, the number of entries flagged false-positive, fp_rate
\* = fp / max(fail, 1) * 100 to the nearest tenth of a percent (0.0 with no
\* fails and no false positives, 50.0 for fail = 2 and fp = 1), and
\* avg_latency = the mean latency cut to an integer; on an empty history
\* every figure is zero.
C23_Statistics ==
    StatsReturned =>
        /\ Stats.total = Len(entries)
        /\ Stats.total = Stats.ok + Stats.fail
        /\ Stats.fail = Fails(entries)
        /\ Stats.false_positives = Flagged(entries)
        /\ 2 * Abs(Stats.fp_rate * Divisor(entries) - Flagged(entries) * 1000)
              <= Divisor(entries)
        /\ (Fails(entries) = 0 /\ Flagged(entries) = 0) => Stats.fp_rate = 0
        /\ (Fails(entries) = 2 /\ Flagged(entries) = 1) => Stats.fp_rate = 500
        /\ Len(entries) > 0 =>
              /\ Stats.avg_latency * Len(entries) <= SumLatency(entries)
              /\ SumLatency(entries) < (Stats.avg_latency + 1) * Len(entries)
        /\ Len(entries) = 0 =>
              /\ Stats.ok = 0
              /\ Stats.fail = 0
              /\ Stats.false_positives = 0
              /\ Stats.fp_rate = 0
              /\ Stats.avg_latency = 0
              /\ Stats.total_cost = 0

\* Three failing entries of five, one of them flagged: the rate is 33.3, and
\* the mean of the latencies 41, 42, 43, 40, 41 is cut to 41.
C23_Witness ==
    /\ StatsReturned
    /\ Stats.total = 5
    /\ Stats.fail = 3
    /\ Stats.false_positives = 1
    /\ Stats.fp_rate = 333
    /\ Stats.avg_latency = 41

\* C23 as stated: fp_rate is exactly fp / max(fail, 1) * 100.
C23_ExactRate ==
    StatsReturned =>
        Stats.fp_rate * Divisor(entries) = Flagged(entries) * 1000

\* The entries es without the k oldest.
DropOldest(es, k) == SubSeq(es, k + 1, Len(es))

\* C24  mark_false_positive(id) returns true exactly when an entry with the
\* id is held; it then sets that entry's false_positive flag and changes no
\* other field, no other entry and not the number of entries; for an unknown
\* id the store is unchanged.  An add leaves every entry it keeps as it was,
\* and the reading calls change nothing: only flag flips and clear touch
\* entries that exist.
C24_MarkFalsePositiveFrame ==
    [][ /\ \A which \in IdChoices :
              VerdictHistoryMark(which) =>
                LET id == IdOf(which)
                    found == \E i \in DOMAIN entries : entries[i].id = id
                IN  /\ result' = Some(found)
                    /\ ~found => entries' = entries
                    /\ found =>
                          /\ Len(entries') = Len(entries)
                          /\ \A i \in DOMAIN entries :
                                IF entries[i].id = id
                                THEN entries'[i] =
                                       [entries[i] EXCEPT !.false_positive = TRUE]
                                ELSE entries'[i] = entries[i]
        /\ \A failed \in BOOLEAN :
              VerdictHistoryAdd(failed) =>
                \E k \in {0, 1} :
                    SubSeq(entries', 1, Len(entries') - 1) = DropOldest(entries, k)
        /\ \A limit \in LimitChoices :
              VerdictHistoryGet(limit) => entries' = entries
        /\ VerdictHistoryStats => entries' = entries
      ]_vars

\* The oldest of five entries was flagged: the call returned true and the
\* four other entries are not flagged.
C24_Witness ==
    /\ calls = <<"mark_false_positive">>
    /\ result = Some(TRUE)
    /\ Len(entries) = 5
    /\ entries[1] = [StoredEntry(entries[1].id, TRUE) EXCEPT !.false_positive = TRUE]
    /\ \A i \in 2..5 : ~entries[i].false_positive

\* A start command was taken: the PrintStarted auto-start or the start
\* command of the API.
StartCommand == PrintStarted \/ ApiStartMonitoring

\* C25  The lifetime counters of the cost tracker never decrease and
\* lifetime_calls >= session_calls (and lifetime_cost >= session_cost) at
\* all times; every start command sets session_cost and session_calls to 0
\* and leaves the lifetime counters as they were; a recorded verdict adds
\* one call and its cost to both pairs.
C25_CostCounters ==
    [][ /\ cost'.lifetime_calls >= cost.lifetime_calls
        /\ cost'.lifetime_cost >= cost.lifetime_cost
        /\ cost'.lifetime_calls >= cost'.session_calls
        /\ cost'.lifetime_cost >= cost'.session_cost
        /\ StartCommand =>
              /\ cost'.session_cost = 0
              /\ cost'.session_calls = 0
              /\ cost'.lifetime_calls = cost.lifetime_calls
              /\ cost'.lifetime_cost = cost.lifetime_cost
        /\ Recorded =>
              /\ cost'.session_calls = cost.session_calls + 1
              /\ cost'.lifetime_calls = cost.lifetime_calls + 1
              /\ cost'.session_cost - cost.session_cost =
                     cost'.lifetime_cost - cost.lifetime_cost
      ]_vars

\* A verdict was recorded, monitoring was started anew and one more verdict
\* was recorded: two calls in the lifetime, one in the session.
C25_Witness ==
    /\ cost.lifetime_calls = 2
    /\ cost.session_calls = 1
    /\ cost.lifetime_cost = 2 * CallCost
    /\ cost.session_cost = CallCost

\* C26  start_session is only called when no session is open: a start
\* command (PrintStarted auto-start or the API's start) finds the session
\* log without an open session, so no open session's counts are replaced
\* without having been appended to the log.
C26_StartOnlyWhenClosed ==
    [][ StartCommand => current = None ]_vars

\* C27  The errors sequence of MonitorState holds at most 10 messages after
\* any number of failing cycles.
C27_ErrorsBounded == Len(state.errors) <= 10

\* The fields of a MonitorState that holds nothing of an earlier session.
NothingCarried(st) ==
    /\ st.cycle_count = 0
    /\ st.consecutive_failures = 0
    /\ ~st.failure_detected
    /\ st.failure_reason = None
    /\ ~st.emergency_stop_sent
    /\ st.last_verdict = None
    /\ st.errors = <<>>
    /\ st.layer = None
    /\ st.progress = 0

\* Thread c begins the cycle start() runs itself, its first.
FirstCycleBegins(c) == CycleBegin(c) /\ loc[c].ret = "start_timer"

\* C28  With calls run one at a time: when start() takes the monitor from
\* Idle to Running, cycle_count, consecutive_failures, failure_detected,
\* failure_reason, emergency_stop_sent, last_verdict, errors, layer and
\* progress are at their initial values after its reset and still so when
\* its first cycle begins, whatever an earlier session or a manual check
\* made while Idle left in them.
C28_FreshOnStart ==
    [][ \A c \in Ctl :
          /\ StartReset(c) => (state'.active /\ NothingCarried(state'))
          /\ FirstCycleBegins(c) =>
                /\ state.active
                /\ NothingCarried(state)
                /\ state'.cycle_count = 1
      ]_vars

\* A session ran a cycle, recorded its verdict and was ended; the next
\* start() has just reset the state and is about to run its first cycle.
C28_Witness ==
    /\ \E c \in Ctl : pc[c] = "lock" /\ loc[c].ret = "start_timer"
    /\ state.active
    /\ NothingCarried(state)
    /\ Len(sessions) = 1
    /\ Newest(sessions).cycles = 1
    /\ Len(entries) = 1

\* _parse_verdict has returned: its argument and its result.
Parsed == Len(calls) = 2 /\ calls[1] = "_parse_verdict"
ParsedFrom == calls[2]
ParsedTo == result[1]

\* Text after a literal, without the blanks and pipes in front of it and the
\* blanks behind it; the default when nothing is left.
ReasonOr(text, default) ==
    LET reason == Strip(LStrip(LStrip(text, WS), {"|"}))
    IN  IF reason = <<>> THEN default ELSE reason

IsFail(lit) == lit \in {FailUpper, FailMixed, <<" ">> \o FailMixed}

\* C29  _parse_verdict looks for VERDICT: FAIL before VERDICT: OK, in any
\* letter case: a reply holding VERDICT: FAIL gives failed with confidence
\* 0.95, also when VERDICT: OK stands in it (in front or behind), and the
\* reason is the text after the first VERDICT: FAIL without leading blanks
\* and pipes ('visual failure detected' when none is left); a reply holding
\* VERDICT: OK only gives not failed with confidence 0 and the text after it,
\* 'print looks normal' when none is left.
C29_FailBeforeOk ==
    Parsed =>
        \A pre \in Prefixes, lit \in FirstLiterals, sep \in Separators,
           word \in Words, second \in SecondLiterals, end \in Endings :
            ParsedFrom = BuildReply(pre, lit, sep, word, second, end) =>
                IF IsFail(lit)
                THEN /\ ParsedTo.failed
                     /\ ParsedTo.confidence = 95
                     /\ ParsedTo.reason =
                            ReasonOr(sep \o word \o second \o end, DefaultFailReason)
                ELSE IF IsFail(second)
                THEN /\ ParsedTo.failed
                     /\ ParsedTo.confidence = 95
                     /\ ParsedTo.reason = ReasonOr(end, DefaultFailReason)
                ELSE /\ ~ParsedTo.failed
                     /\ ParsedTo.confidence = 0
                     /\ ParsedTo.reason =
                            ReasonOr(sep \o word \o second \o end, DefaultOkReason)

\* The reply 'VERDICT: OK Verdict: Fail | b' was parsed: failed, with the
\* text after the second literal as the reason.
C29_Witness ==
    /\ Parsed
    /\ ParsedFrom = BuildReply(<<>>, OkUpper, <<>>, <<>>, <<" ">> \o FailMixed,
                               <<" ", "|", " ", "b">>)
    /\ ParsedTo = [failed |-> TRUE, reason |-> <<"b">>, confidence |-> 95]

\* The cycle of thread t ends without a verdict: no snapshot, the stage gate,
\* an analysis that raised, or an error outside both.
NoVerdictCycle(t) ==
    \/ CycleSnapshotFail(t)
    \/ CycleUnexpectedError(t)
    \/ CycleAnalyzeError(t)
    \/ (CycleSnapshotOk(t) /\ Gated(loc[t].layer))

\* C30  A cycle that yields no verdict (snapshot failure, stage-gate skip,
\* analysis error) leaves consecutive_failures as it was, records nothing and
\* cancels nothing; a failing verdict adds one strike and cancel_print is
\* called by that very step exactly when the count has reached the
\* threshold; only a non-failing verdict sets the count back to 0.  So
\* failing verdicts with nothing but such cycles between them count as
\* consecutive.
C30_NoVerdictKeepsStrikes ==
    [][ /\ \A t \in Threads :
              NoVerdictCycle(t) =>
                /\ state'.consecutive_failures = state.consecutive_failures
                /\ ~Recorded
                /\ Count(calls', "cancel_print") = 0
                /\ Returned(t)
        /\ (Recorded /\ Newest(entries').failed) =>
              /\ state'.consecutive_failures = state.consecutive_failures + 1
              /\ Count(calls', "cancel_print") =
                     (IF state.consecutive_failures + 1 >= Needed THEN 1 ELSE 0)
        /\ (Recorded /\ ~Newest(entries').failed) =>
              state'.consecutive_failures = 0
      ]_vars

\* Strike, a cycle without a snapshot, strike: with two strikes needed the
\* third cycle cancelled the print.
C30_Witness ==
    /\ Needed = 2
    /\ state.cycle_count = 3
    /\ state.errors = << <<2, "snapshot failed">> >>
    /\ Len(entries) = 2
    /\ entries[1].failed /\ entries[1].cycle = 1
    /\ entries[2].failed /\ entries[2].cycle = 3
    /\ state.consecutive_failures = 2
    /\ Count(calls, "cancel_print") = 1

\* No start(), stop() or manual check is executing.
NoControlCall == \A c \in Ctl : pc[c] = "idle"

\* The timer threads that will call again: alive and not cancelled.
Scheduled == {t \in Timers : pc[t] # "dead" /\ ~cancelled[t]}

\* C31  Whenever no start(), stop() or manual check is executing, the
\* monitor is active if and only if exactly one repeating timer is
\* scheduled: none while Idle, never two, never active without one.
C31_ActiveIffOneTimer ==
    NoControlCall =>
        /\ Cardinality(Scheduled) <= 1
        /\ state.active <=> Cardinality(Scheduled) = 1

\* The host reports the end of the print.
PrintEnds == \E event \in {"PrintDone", "PrintCancelled", "PrintFailed"} : PrintEnd(event)

\* C32  The session opened at a monitoring start is ended and appended to
\* the session log, once, when the print ends or monitoring is stopped: a
\* print-end event or a stop command that finds a session open leaves none
\* open and the log one record longer, and the record tells that the abort
\* was sent when it was (the monitor stopped itself after a confirmed
\* failure and the host reports the print as cancelled).
C32_SessionEndedAtPrintEnd ==
    [][ ((PrintEnds \/ ApiStopMonitoring) /\ current # None) =>
          /\ current' = None
          /\ Len(sessions') = Len(sessions) + 1
          /\ state.emergency_stop_sent => Newest(sessions').emergency_stop
      ]_vars

\* C33  Once stop() has returned for a stop request and until start() is
\* called again (the monitor is inactive all that time), cancel_print is not
\* called and no failure notification is sent: a step that does either
\* finds the monitor active.
C33_NoAbortAfterStop ==
    [][ (Count(calls', "cancel_print") > 0
            \/ Count(calls', "send_failure_notifications") > 0)
          => state.active ]_vars

\* A start() is past its reset or has created its timer, and neither a stop
\* request has ended the session nor a failure has been confirmed.
MonitoringBegun ==
    /\ timer # None \/ \E c \in Starting : pc[c] # "start_reset"
    /\ ~state.failure_detected
    /\ sessions = <<>>
    /\ current # None

\* C34  A manual check issued while Idle that overlaps a start() does not
\* disable monitoring: the step that ends the manual check leaves the
\* monitor active when a start() is past its reset or has created its timer
\* and no stop or confirmed failure has occurred.
C34_ManualCheckKeepsMonitoring ==
    [][ (ManualUnset /\ MonitoringBegun) => state'.active ]_vars

\* The API thread takes a step of the cycle of a manual check issued while
\* the monitor was Idle.
ManualCycleStep ==
    /\ loc[Api].ret = "manual_unset"
    /\ InBody(Api)
    /\ pc'[Api] # pc[Api]

\* C35  A manual check issued while the monitor is Idle never calls
\* cancel_print and leaves the monitor Idle: no step of its cycle makes the
\* call, and the step that ends it leaves active false.
C35_ManualCheckNeverAborts ==
    [][ /\ ManualCycleStep => Count(calls', "cancel_print") = 0
        /\ ManualUnset => ~state'.active
      ]_vars

\* Thread t takes a step of a cycle that began before the last reset of
\* MonitorState: the cycle's number is above the count start() has reset.
\* The new session's own first cycle waits for the lock the old cycle holds.
EarlierCycleStep(t) ==
    /\ InBody(t)
    /\ lock = Some(t)
    /\ pc'[t] # pc[t]
    /\ loc[t].cycle_num > state.cycle_count
    /\ sessions # <<>>

\* C36  A cycle that was in progress when stop() was called does not write
\* the MonitorState of a session begun by a later start(): after the stop
\* request has ended the old session and start() has reset the state, no
\* step of the old cycle changes MonitorState.
C36_OldCycleLeavesNewState ==
    [][ \A t \in Threads : EarlierCycleStep(t) => state' = state ]_vars

\* C37  The summary appended when a session ends has emergency_stop true
\* exactly when cancel_print was sent in that session (emergency_stop_sent
\* of the MonitorState, which start() clears), whichever call ends it.
C37_AbortFlagExact ==
    [][ Len(sessions') = Len(sessions) + 1 =>
          (Newest(sessions').emergency_stop <=> state.emergency_stop_sent)
      ]_vars

\* C38  Every cycle ends with the cycle lock released, whatever its
\* outcome: the lock is held only by a thread inside a cycle body, a thread
\* that holds it gives it up, and a thread waiting for it gets past it.
C38_LockAlwaysReleased ==
    /\ [](lock # None => InBody(lock[1]))
    /\ \A t \in Threads : (lock = Some(t)) ~> (lock # Some(t))
    /\ \A t \in Threads : (pc[t] = "lock") ~> (pc[t] # "lock")

\* A thread waits for the lock while the cycle that holds it has confirmed
\* a failure and is about to notify and stop.
C38_Witness ==
    \E t, u \in Threads :
        /\ t # u
        /\ pc[t] = "lock"
        /\ lock = Some(u)
        /\ pc[u] = "notify"

\* C39  The statistics' false-positive count never exceeds their fail
\* count, and fp_rate lies between 0 and 100 percent.
C39_FalsePositivesWithinFails ==
    StatsReturned =>
        /\ Stats.false_positives <= Stats.fail
        /\ Stats.fp_rate >= 0
        /\ Stats.fp_rate <= 1000

\* C40  emergency_stop_sent implies failure_detected, failure_detected
\* implies a failure_reason, and once the cycle that confirmed the failure
\* has completed (and until start() is entered again) the monitor is
\* inactive and no timer is held or scheduled.
C40_AbortedMeansStopped ==
    /\ state.emergency_stop_sent => state.failure_detected
    /\ state.failure_detected => state.failure_reason # None
    /\ StoppedByAbort =>
          /\ ~state.active
          /\ timer = None
          /\ Scheduled = {}

====
